---- MODULE Spec2Model ----
(***************************************************************************)
(* todoist-taskwarrior: the `titwsync` command group (cli.py), its support *)
(* functions (utils.py) and the standalone import (migrate.py), as a state *)
(* machine.                                                                *)
(*                                                                         *)
(* Strings the code inspects character by character (project names) are    *)
(* sequences of one-character strings; Python's None in such a field is    *)
(* the one-element sequence NoneStr, and '' is <<>>.  Integer fields use 0 *)
(* for an absent / falsy value (parent_id, todoist_id, todoist_sync).      *)
(***************************************************************************)
EXTENDS Integers, Sequences, FiniteSets, TLC

VARIABLES
    rcfile,            \* ~/.titwsyncrc.yaml: [state, api_key, project_map, project_sync]
    cache_dir,         \* ~/.todoist-sync/: "absent", "empty" or "populated"
    ti_projects,       \* todoist.projects.all(): sequence of [id, name, parent_id]
    ti_items,          \* remote tasks: function id -> [content, project_id, priority, checked, ...]
    tw_store,          \* local tasks: function uuid -> task record
    now,               \* wall clock, in seconds
    next_id,           \* the next identifier the remote service hands out
    next_uuid,         \* the next uuid the local store hands out
    pc,                \* position of the running command, "idle" when none runs
    cmd,               \* the last sub-command invoked and how it ended
    p_idx,             \* _ti_project_list: index of p in todoist.projects.all()
    project_hierarchy, \* _ti_project_list: the list built for p
    pp,                \* _ti_project_list: the walk's current project
    ti_project_list,   \* the index: sequence of [name, p], a dict in insertion order
    tw_tasks,          \* sync: tw_tasks['pending'] as loaded at line 147
    t_idx,             \* sync: position in the running pass
    tasks,             \* sync: todoist.items.all() as fetched at line 186
    calls,             \* client calls made by the running command, in order
    runs,              \* number of `sync` runs started
    prev_run,          \* what each finished `sync` run left behind, in order
    ti_queue,          \* commands queued in the remote client, sent by commit()
    faults_left,       \* client calls that may still fail in this behaviour
    fn_arg,            \* a support function called on its own: its arguments
    fn_ret             \* ... and what the calls returned

vars == <<rcfile, cache_dir, ti_projects, ti_items, tw_store, now, next_id,
          next_uuid, pc, cmd, p_idx, project_hierarchy, pp, ti_project_list,
          tw_tasks, t_idx, tasks, calls, runs, prev_run, ti_queue,
          faults_left, fn_arg, fn_ret>>

-----------------------------------------------------------------------------
(* Bounds.                                                                 *)

MaxProjects == 3     \* remote projects in a project forest
MaxHier     == 5     \* longest project_hierarchy the model builds
MaxLocal    == 1     \* local tasks in an initial local store
MaxRemote   == 1     \* remote tasks in an initial remote store
MaxRuns     == 2     \* `sync` runs in one behaviour
MaxFaults   == 1     \* client calls that fail in one behaviour
MaxPulls    == 2     \* pulls of one remote task in a row

-----------------------------------------------------------------------------
(* Values.                                                                 *)

NoneStr == <<"None">>          \* Python None where the code expects a string
EmptyStr == <<>>               \* ''

Range(s) == { s[i] : i \in 1..Len(s) }

\* Names used by the scenarios, as character sequences.
N_Inbox   == <<"I", "n", "b", "o", "x">>
N_Work    == <<"W", "o", "r", "k">>
N_Errands == <<"E", "r", "r", "a", "n", "d", "s">>
N_MyStuff == <<"M", "y", " ", "S", "t", "u", "f", "f">>
N_errands == <<"e", "r", "r", "a", "n", "d", "s">>
N_ghost   == <<"g", "h", "o", "s", "t">>
N_WorkErrands == N_Work \o <<".">> \o N_Errands

\* A Python dict with string keys: a sequence of [k, v] in insertion order.
DictHas(d, k) == \E i \in 1..Len(d) : d[i].k = k
DictGet(d, k) == d[CHOOSE i \in 1..Len(d) : d[i].k = k].v
DictSet(d, k, v) ==
    IF DictHas(d, k)
    THEN [i \in 1..Len(d) |-> IF d[i].k = k THEN [k |-> k, v |-> v] ELSE d[i]]
    ELSE Append(d, [k |-> k, v |-> v])

-----------------------------------------------------------------------------
(* utils.py                                                                *)

try_map(m, value) == IF DictHas(m, value) THEN DictGet(m, value) ELSE value

maybe_quote_ws(value) ==
    IF value = NoneStr THEN value
    ELSE IF \E x \in Range(value) : x = " " \/ x = "\t"
         THEN <<"'">> \o value \o <<"'">>
         ELSE value

\* TI_PRIORITY_MAP = {1: None, 2: 'L', 3: 'M', 4: 'H'}
TI_PRIORITY_MAP == (1 :> "None") @@ (2 :> "L") @@ (3 :> "M") @@ (4 :> "H")

KeyError == "KeyError"

\* A failed lookup raises; the raised KeyError is the value here.
ti_priority_to_tw(priority) ==
    IF priority \in DOMAIN TI_PRIORITY_MAP THEN TI_PRIORITY_MAP[priority] ELSE KeyError

\* The KeyError of tw_priority_map[priority], where the result is an integer.
RaisedKeyError == -1

tw_priority_to_ti_swapped(priority) ==
    IF priority = "L" THEN 3 ELSE IF priority = "M" THEN 2
    ELSE IF priority = "H" THEN 4 ELSE IF priority = "None" THEN 1
    ELSE RaisedKeyError

\* dict(map(reversed, TI_PRIORITY_MAP.items()))[priority]
tw_priority_to_ti(priority) ==
    LET tw_priority_map ==
            [v \in { TI_PRIORITY_MAP[k] : k \in DOMAIN TI_PRIORITY_MAP } |->
                CHOOSE k \in DOMAIN TI_PRIORITY_MAP : TI_PRIORITY_MAP[k] = v]
    IN  IF priority \in DOMAIN tw_priority_map THEN tw_priority_map[priority]
        ELSE RaisedKeyError

-----------------------------------------------------------------------------
(* cli.py: the command group and the commands that do not reconcile.       *)

\* A project_map as `configure` receives it from validation.validate_map.
ProjectMaps ==
    { <<>>,
      << [k |-> N_WorkErrands, v |-> N_errands] >>,
      << [k |-> N_WorkErrands, v |-> N_errands], [k |-> N_MyStuff, v |-> N_errands] >>,
      << [k |-> N_Work, v |-> NoneStr] >> }

NoConfig == [state |-> "absent", api_key |-> "", project_map |-> <<>>,
             tag_map |-> <<>>, project_sync |-> <<>>]

\* {k: True for k in map_project.values()}
RECURSIVE project_sync_of(_, _)
project_sync_of(map_project, i) ==
    IF i = 0 THEN <<>>
    ELSE DictSet(project_sync_of(map_project, i - 1), map_project[i].v, TRUE)

cli_configure_exempt(rc, is_help_cmd) ==
    IF rc.state = "ok" THEN "clients" ELSE "noclient"

\* How the group callback cli() ends for a configuration file and argv:
\*   "exit1"    log.error('Run configure first. Exiting.'); exit(1)
\*   "raise"    an uncaught exception (the process ends with status 1)
\*   "noclient" the file does not exist: config, todoist, taskwarrior stay None
\*   "clients"  the clients are constructed
cli(rc, is_help_cmd) ==
    IF rc.state = "absent" THEN "noclient"
    ELSE IF rc.state = "empty" THEN "raise"          \* 'todoist' not in None
    ELSE IF rc.state = "no_todoist"
            \/ (rc.state = "no_api_key" /\ ~is_help_cmd) THEN "exit1"
    ELSE IF rc.state = "no_api_key" THEN "raise"     \* config['todoist']['api_key']
    ELSE "clients"

Ended(name, help, group, status, body) ==
    [name |-> name, help |-> help, group |-> group, exit |-> status, body |-> body]

\* What is left alone by a command that is not `sync`.
SyncIdle ==
    UNCHANGED <<ti_projects, ti_items, tw_store, now, next_id, next_uuid, p_idx,
                project_hierarchy, pp, ti_project_list, tw_tasks, t_idx, tasks,
                calls, runs, prev_run, ti_queue,
          faults_left, fn_arg, fn_ret>>

\* titwsync configure [-p SRC=DST]... TODOIST_API_KEY
Configure(map_project, map_tag, todoist_api_key, help) ==
    LET group == cli(rcfile, help) IN
    /\ pc = "idle"
    /\ IF group \in {"exit1", "raise"}
       THEN /\ cmd' = Ended("configure", help, group, 1, FALSE)
            /\ UNCHANGED rcfile
       ELSE IF help
       THEN /\ cmd' = Ended("configure", help, group, 0, FALSE)
            /\ UNCHANGED rcfile
       ELSE /\ rcfile' = [state |-> "ok", api_key |-> todoist_api_key,
                          project_map |-> map_project, tag_map |-> map_tag,
                          project_sync |-> project_sync_of(map_project, Len(map_project))]
            /\ cmd' = Ended("configure", help, group, 0, TRUE)
    /\ UNCHANGED <<cache_dir, pc>>
    /\ SyncIdle

\* titwsync synchronize: todoist.sync() inside log.with_feedback
Synchronize(help) ==
    LET group == cli(rcfile, help) IN
    /\ pc = "idle"
    /\ IF group \in {"exit1", "raise"}
       THEN /\ cmd' = Ended("synchronize", help, group, 1, FALSE)
            /\ UNCHANGED cache_dir
       ELSE IF help
       THEN /\ cmd' = Ended("synchronize", help, group, 0, FALSE)
            /\ UNCHANGED cache_dir
       ELSE IF group = "noclient"                    \* None.sync()
       THEN /\ cmd' = Ended("synchronize", help, group, 1, TRUE)
            /\ UNCHANGED cache_dir
       ELSE /\ cache_dir' = "populated"
            /\ cmd' = Ended("synchronize", help, group, 0, TRUE)
    /\ UNCHANGED <<rcfile, pc>>
    /\ SyncIdle

\* titwsync clean: confirmation, then os.remove of every file, then os.rmdir
Clean(help, confirmed) ==
    LET group == cli(rcfile, help) IN
    /\ pc = "idle"
    /\ IF group \in {"exit1", "raise"}
       THEN /\ cmd' = Ended("clean", help, group, 1, FALSE)
            /\ UNCHANGED cache_dir
       ELSE IF help
       THEN /\ cmd' = Ended("clean", help, group, 0, FALSE)
            /\ UNCHANGED cache_dir
       ELSE IF ~confirmed                            \* click aborts
       THEN /\ cmd' = Ended("clean", help, group, 1, FALSE)
            /\ UNCHANGED cache_dir
       ELSE IF cache_dir = "absent"                  \* os.scandir raises
       THEN /\ cmd' = Ended("clean", help, group, 1, TRUE)
            /\ UNCHANGED cache_dir
       ELSE /\ cache_dir' = "absent"
            /\ cmd' = Ended("clean", help, group, 0, TRUE)
    /\ UNCHANGED <<rcfile, pc>>
    /\ SyncIdle

-----------------------------------------------------------------------------
(* cli.py: _ti_project_list, one loop iteration per step.                  *)

\* todoist.projects.get_by_id: parent links refer to existing projects.
projects_get_by_id(id) ==
    ti_projects[CHOOSE i \in 1..Len(ti_projects) : ti_projects[i].id = id]

RECURSIVE join_names(_, _)
\* '.'.join(p['name'] for p in project_hierarchy), from element i on
join_names(hierarchy, i) ==
    IF i > Len(hierarchy) THEN <<>>
    ELSE IF i = Len(hierarchy) THEN hierarchy[i].name
    ELSE hierarchy[i].name \o <<".">> \o join_names(hierarchy, i + 1)

NoProject == [id |-> 0, name |-> <<>>, parent_id |-> 0]

IndexIdle == UNCHANGED <<p_idx, project_hierarchy, pp, ti_project_list>>

StoresIdle == UNCHANGED <<ti_items, tw_store, now, next_id, next_uuid, ti_queue,
                          faults_left>>

PassIdle == UNCHANGED <<tw_tasks, t_idx, tasks, calls, runs, prev_run>>

\* for p in todoist.projects.all(): project_hierarchy = [p]; pp = p
ProjectBegin ==
    /\ pc = "projects"
    /\ p_idx <= Len(ti_projects)
    /\ project_hierarchy' = << ti_projects[p_idx] >>
    /\ pp' = ti_projects[p_idx]
    /\ pc' = "walk"
    /\ UNCHANGED <<rcfile, cache_dir, ti_projects, cmd, p_idx, ti_project_list,
                   fn_arg, fn_ret>>
    /\ StoresIdle /\ PassIdle

\* The project the walk moves to: todoist.projects.get_by_id(p['parent_id'])
walk_parent(p, cur) == projects_get_by_id(p.parent_id)

\* while pp['parent_id']: pp = ...; project_hierarchy.insert(0, pp)
WalkParent ==
    /\ pc = "walk"
    /\ pp.parent_id # 0
    /\ Len(project_hierarchy) < MaxHier
    /\ pp' = walk_parent(ti_projects[p_idx], pp)
    /\ project_hierarchy' = << pp' >> \o project_hierarchy
    /\ UNCHANGED <<rcfile, cache_dir, ti_projects, cmd, pc, p_idx, ti_project_list,
                   fn_arg, fn_ret>>
    /\ StoresIdle /\ PassIdle

\* The key of result[...] = p
index_name(hierarchy, project_map) ==
    maybe_quote_ws(try_map(project_map, join_names(hierarchy, 1)))

\* The walk has reached a project without parent: result[name] = p
ProjectIndexed ==
    /\ pc = "walk"
    /\ pp.parent_id = 0
    /\ ti_project_list' =
           DictSet(ti_project_list,
                   index_name(project_hierarchy, rcfile.project_map),
                   ti_projects[p_idx])
    /\ p_idx' = p_idx + 1
    /\ pc' = "projects"
    /\ UNCHANGED <<rcfile, cache_dir, ti_projects, cmd, project_hierarchy, pp,
                   fn_arg, fn_ret>>
    /\ StoresIdle /\ PassIdle

-----------------------------------------------------------------------------
(* utils.py: dates of the remote service.                                  *)

\* dateutil.parser.parse(date).replace(tzinfo=None).strftime('%Y%m%dT%H%M%SZ')
\* on the remote timestamps that occur here: the offset is dropped.
DateTable ==
    ("Fri 26 Sep 2014 08:25:05 +0000" :> "20140926T082505Z") @@
    ("Mon 02 Nov 2026 10:00:00 +0100" :> "20261102T100000Z") @@
    ("2026-11-03T12:00:00"            :> "20261103T120000Z")

parse_date(date) == IF date = "" THEN "None" ELSE DateTable[date]

NoDue == [set |-> FALSE, date |-> "", string |-> <<>>, is_recurring |-> FALSE]

parse_due(due) == IF ~due.set THEN "None" ELSE parse_date(due.date)

-----------------------------------------------------------------------------
(* utils.py: recurrence phrases.  A phrase as the remote service gives it  *)
(* is a sequence of pieces, words and runs of blanks in turn; a normalised *)
(* phrase is a text.  A regular expression is the set of its matches, each *)
(* with the groups the code reads; \\d+ and \\d{1,2} range over Digits.     *)

MaxPad == 1          \* blanks a phrase carries beyond the single separators

RECURSIVE Blanks(_)
Blanks(n) == IF n = 0 THEN "" ELSE " " \o Blanks(n - 1)

IsBlank(piece) == \E n \in 1..(MaxPad + 2) : piece = Blanks(n)

\* The words that occur here with an upper-case letter, and their lower case.
Capital ==
    ("every" :> "Every") @@ ("ev" :> "EV") @@ ("daily" :> "Daily") @@
    ("monthly" :> "MONTHLY") @@ ("monday" :> "Monday")

\* str.lower()
lower(word) ==
    IF \E k \in DOMAIN Capital : Capital[k] = word
    THEN CHOOSE k \in DOMAIN Capital : Capital[k] = word
    ELSE word

\* str.strip().split(): the words, without the blanks around and between
split(date_string) == SelectSeq(date_string, LAMBDA piece : ~IsBlank(piece))

RECURSIVE join(_, _)
\* ' '.join(words), from word i on
join(words, i) ==
    IF i > Len(words) THEN ""
    ELSE IF i = Len(words) THEN words[i]
    ELSE words[i] \o " " \o join(words, i + 1)

\* Line 116: ' '.join(date_string.lower().strip().split())
normalise(date_string) ==
    LET words == split(date_string)
    IN  join([i \in 1..Len(words) |-> lower(words[i])], 1)


Digits == {"1", "2", "3", "12"}

_PERIOD == {"hour", "day", "week", "month", "year"}
_EVERY == {"ev", "every"}
_ORDINAL == {"", "st", "nd", "rd", "th"}
_SIMPLE == {"daily", "weekly", "monthly", "yearly"}
_DOW ==
    {"mo", "mon", "monday", "tu", "tue", "tues", "tuesday",
     "we", "wed", "weds", "wednes", "wednesday", "th", "thu", "thurs", "thursday",
     "fr", "fri", "friday", "sa", "sat", "saturday", "su", "sun", "sunday"}
\* (\sat (\d{1,2}:\d{1,2})|(\d{1,2}(am|pm)))?
_IGNORED ==
    {""} \cup { " at " \o h \o ":" \o m : h \in {"9", "12"}, m \in {"00"} }
         \cup { h \o ap : h \in {"9"}, ap \in {"am", "pm"} }

RE_SINGLE_CYCLE ==
    { [s |-> ev \o " " \o one \o per \o pl \o ig, simple |-> "", period |-> per] :
        ev \in _EVERY, one \in {"", "1 "}, per \in _PERIOD, pl \in {"", "s"},
        ig \in _IGNORED }
    \cup { [s |-> sim \o ig, simple |-> sim, period |-> ""] :
             sim \in _SIMPLE, ig \in _IGNORED }

RE_MULTI_CYCLE ==
    { [s |-> ev \o " " \o c \o ord \o " " \o per \o pl \o ig,
       cycles |-> c, period |-> per] :
        ev \in _EVERY, c \in Digits, ord \in _ORDINAL, per \in _PERIOD,
        pl \in {"", "s"}, ig \in _IGNORED }
    \cup { [s |-> ev \o " other " \o per \o pl \o ig, cycles |-> "", period |-> per] :
             ev \in _EVERY, per \in _PERIOD, pl \in {"", "s"}, ig \in _IGNORED }

RE_EVERY_DOW ==
    { [s |-> ev \o " " \o dow \o ig, cycles |-> "", other |-> "", dayofweek |-> dow] :
        ev \in _EVERY, dow \in _DOW, ig \in _IGNORED }
    \cup { [s |-> ev \o " " \o c \o ord \o " " \o dow \o ig,
             cycles |-> c, other |-> "", dayofweek |-> dow] :
             ev \in _EVERY, c \in Digits, ord \in _ORDINAL, dow \in _DOW,
             ig \in _IGNORED }
    \cup { [s |-> ev \o " other " \o dow \o ig,
             cycles |-> "", other |-> "other", dayofweek |-> dow] :
             ev \in _EVERY, dow \in _DOW, ig \in _IGNORED }

RE_EVERY_DOM ==
    { [s |-> ev \o " " \o c \o ord \o ig, cycles |-> c] :
        ev \in _EVERY, c \in Digits, ord \in _ORDINAL, ig \in _IGNORED }

RE_SPECIAL ==
    { [s |-> ev \o " " \o label, label |-> label] :
        ev \in _EVERY,
        label \in {"morning", "evening", "weekday", "workday", "last day"} }

\* RE.match(date_string): the matches of the whole string
re_match(re, date_string) == { m \in re : m.s = date_string }

PERIOD_TO_SIMPLE ==
    ("hour" :> "hourly") @@ ("day" :> "daily") @@ ("week" :> "weekly") @@
    ("month" :> "monthly") @@ ("year" :> "yearly")

\* Each _recur_* returns "None" where the code returns None.
_recur_single_cycle(date_string) ==
    LET match == re_match(RE_SINGLE_CYCLE, date_string) IN
    IF match = {} THEN "None"
    ELSE LET groups == CHOOSE m \in match : TRUE IN
         IF groups.simple # "" THEN groups.simple
         ELSE PERIOD_TO_SIMPLE[groups.period]

_recur_multi_cycle(date_string) ==
    LET match == re_match(RE_MULTI_CYCLE, date_string) IN
    IF match = {} THEN "None"
    ELSE LET groups == CHOOSE m \in match : TRUE
             cycles == IF groups.cycles # "" THEN groups.cycles ELSE "2"
         IN  cycles \o " " \o groups.period \o "s"

\* groups['cycles'] is text and the literals 2 and 1 are integers: a value
\* here is [int, text], and cycles == 1 holds of the integer 1 alone.
_recur_day_of_week(date_string) ==
    LET match == re_match(RE_EVERY_DOW, date_string) IN
    IF match = {} THEN "None"
    ELSE LET groups == CHOOSE m \in match : TRUE
             cycles == IF groups.cycles # "" THEN [int |-> FALSE, text |-> groups.cycles]
                       ELSE IF groups.other # "" THEN [int |-> TRUE, text |-> "2"]
                       ELSE [int |-> TRUE, text |-> "1"]
         IN  IF cycles = [int |-> TRUE, text |-> "1"] THEN "weekly"
             ELSE cycles.text \o " weeks"

_recur_day_of_month(date_string) ==
    IF re_match(RE_EVERY_DOM, date_string) = {} THEN "None" ELSE "monthly"

_recur_special(date_string) ==
    LET match == re_match(RE_SPECIAL, date_string) IN
    IF match = {} THEN "None"
    ELSE LET label == (CHOOSE m \in match : TRUE).label IN
         IF label \in {"morning", "evening"} THEN "daily"
         ELSE IF label \in {"weekday", "workday"} THEN "weekdays"
         ELSE "monthly"

Unsupported(date_string) == "UnsupportedRecurrence: " \o date_string

parse_recur_string_multi_first(date_string) ==
    IF date_string = <<>> THEN "None"
    ELSE LET normal == normalise(date_string)
             r1 == _recur_single_cycle(normal)
             r2 == _recur_multi_cycle(normal)
             r3 == _recur_day_of_week(normal)
             r4 == _recur_day_of_month(normal)
             r5 == _recur_special(normal)
         IN  IF r2 # "None" THEN r2
             ELSE IF r1 # "None" THEN r1
             ELSE IF r3 # "None" THEN r3
             ELSE IF r4 # "None" THEN r4
             ELSE IF r5 # "None" THEN r5
             ELSE Unsupported(normal)

\* parse_recur_string(date_string): the phrase is normalised, the families
\* are tried in order, and the failure carries the normalised phrase
parse_recur_string(date_string) ==
    IF date_string = <<>> THEN "None"
    ELSE LET normal == normalise(date_string)
             r1 == _recur_single_cycle(normal)
             r2 == _recur_multi_cycle(normal)
             r3 == _recur_day_of_week(normal)
             r4 == _recur_day_of_month(normal)
             r5 == _recur_special(normal)
         IN  IF r1 # "None" THEN r1
             ELSE IF r2 # "None" THEN r2
             ELSE IF r3 # "None" THEN r3
             ELSE IF r4 # "None" THEN r4
             ELSE IF r5 # "None" THEN r5
             ELSE Unsupported(normal)

parse_recur(due) ==
    IF ~due.set \/ ~due.is_recurring THEN "None" ELSE parse_recur_string(due.string)

\* cli.py parse_recur_or_prompt: an unsupported phrase is replaced by what the
\* user answers at the prompt (validated by parse_recur_string; '' gives None)
parse_recur_or_prompt(due, answer) ==
    LET r == parse_recur(due) IN
    IF r = Unsupported(normalise(due.string)) THEN answer ELSE r

-----------------------------------------------------------------------------
(* The two stores as the client libraries present them.                    *)

\* todoist.labels.get_by_id(l_id)['name']
LabelName == (1 :> "home") @@ (2 :> "office")

E(op, uuid, tid) == [op |-> op, uuid |-> uuid, tid |-> tid]

\* One queued command of the remote client.
Cmd(op, id, item) == [op |-> op, id |-> id, item |-> item]

apply_cmd(items, c) ==
    IF c.op = "item_add" THEN items @@ (c.id :> c.item)
    ELSE IF c.id \notin DOMAIN items THEN items
    ELSE IF c.op = "item_update"
         THEN [items EXCEPT ![c.id].content = c.item.content,
                            ![c.id].priority = c.item.priority]
    ELSE IF c.op = "item_move"
         THEN [items EXCEPT ![c.id].project_id = c.item.project_id]
    ELSE IF c.op = "item_complete" THEN [items EXCEPT ![c.id].checked = 1]
    ELSE IF c.op = "item_uncomplete" THEN [items EXCEPT ![c.id].checked = 0]
    ELSE items

RECURSIVE apply_queue(_, _, _)
apply_queue(items, queue, i) ==
    IF i > Len(queue) THEN items
    ELSE apply_queue(apply_cmd(items, queue[i]), queue, i + 1)

\* The state a handler works on; `raised` says an exception is propagating.
World ==
    [items |-> ti_items, queue |-> ti_queue, store |-> tw_store, nid |-> next_id,
     nuuid |-> next_uuid, log |-> calls, raised |-> FALSE]

Raise(w) == [w EXCEPT !.raised = TRUE]

\* todoist.commit(): the queued commands reach the service.
commit(w) ==
    [w EXCEPT !.items = apply_queue(w.items, w.queue, 1), !.queue = <<>>,
              !.log = Append(@, E("commit", 0, 0))]

\* taskwarrior.task_update(task): the fields of `task` are written, a status
\* removed from `task` is left as stored, and the store stamps `modified`.
task_update(w, task, d) ==
    LET old == w.store[task.uuid]
        new == [task EXCEPT !.modified = now + d,
                            !.status = IF task.status = "None" THEN old.status
                                       ELSE task.status]
    IN  [w EXCEPT !.store = [@ EXCEPT ![task.uuid] = new],
                  !.log = Append(@, E("task_update", task.uuid, task.todoist_id))]

task_delete_keeps(w, uuid) ==
    [w EXCEPT !.log = Append(@, E("task_delete", uuid, w.store[uuid].todoist_id))]

\* taskwarrior.task_delete(uuid=...)
task_delete(w, uuid) ==
    [w EXCEPT !.store = [u \in DOMAIN w.store \ {uuid} |-> w.store[u]],
              !.log = Append(@, E("task_delete", uuid, w.store[uuid].todoist_id))]

get_task_finds_none(store, tid) == {}

\* taskwarrior.get_task(todoist_id=...): the uuids of the matching tasks
get_task(store, tid) == { u \in DOMAIN store : store[u].todoist_id = tid }

Min(S) == CHOOSE x \in S : \A y \in S : x <= y

-----------------------------------------------------------------------------
(* log.py (not in the source tree): the two scoped wrappers, as section 4.3 *)
(* of the specification describes them.                                     *)

\* with log.on_error(msg): an exception of the body is reported, not raised
log_on_error(w, uuid, tid) ==
    IF w.raised
    THEN [w EXCEPT !.raised = FALSE, !.log = Append(@, E("error", uuid, tid))]
    ELSE w

\* with log.with_feedback(msg): an exception of the body propagates
log_with_feedback(w) == w

-----------------------------------------------------------------------------
(* cli.py: conversion and reconciliation of one task.                      *)

\* The configuration the running command loaded in cli().
config_ps == rcfile.project_sync
default_project == try_map(rcfile.project_map, N_Inbox)

\* tw_task['project'] not in config_ps or not config_ps[tw_task['project']]
not_enabled(project) == ~DictHas(config_ps, project) \/ ~DictGet(config_ps, project)

\* project_name = ''; for project_name, p in ti_project_list.items():
\*     if p['id'] == ti_task['project_id']: break
\* The loop variable keeps the last key when no project matches.
convert_project(ti_task, index) ==
    LET hits == { i \in 1..Len(index) : index[i].v.id = ti_task.project_id } IN
    IF hits # {} THEN index[Min(hits)].k
    ELSE IF Len(index) > 0 THEN index[Len(index)].k
    ELSE EmptyStr

_convert_ti_task(ti_task, index, answer) ==
    [tid         |-> ti_task.id,
     description |-> ti_task.content,
     project     |-> convert_project(ti_task, index),
     priority    |-> ti_priority_to_tw(ti_task.priority),
     tags        |-> [i \in 1..Len(ti_task.labels) |->
                        try_map(rcfile.tag_map, LabelName[ti_task.labels[i]])],
     entry       |-> parse_date(ti_task.date_added),
     due         |-> parse_due(ti_task.due),
     recur       |-> parse_recur_or_prompt(ti_task.due, answer),
     status      |-> IF ti_task.checked = 1 THEN "completed" ELSE "pending"]

\* ti_priority_to_tw raised inside _convert_ti_task, which no wrapper encloses
convert_raises(ti_task) == ti_priority_to_tw(ti_task.priority) = KeyError

sync_branch_not_strict(tw_task) ==
    IF tw_task.todoist_sync # 0 /\ tw_task.modified >= tw_task.todoist_sync
    THEN "_ti_update_task" ELSE "_tw_update_task"

\* _sync_task: which side is authoritative
sync_branch(tw_task) ==
    IF tw_task.todoist_sync # 0
    THEN IF tw_task.modified > tw_task.todoist_sync
         THEN "_ti_update_task" ELSE "_tw_update_task"
    ELSE "_tw_update_task"

\* What the local store keeps of a written value: an empty or None field is
\* absent from the next export.
Stored(task) ==
    [task EXCEPT !.tags = IF @ = <<>> THEN NoneStr ELSE @,
                 !.project = IF @ = EmptyStr THEN NoneStr ELSE @,
                 !.entry = IF @ = "" THEN "None" ELSE @,
                 !.due = IF @ = "" THEN "None" ELSE @,
                 !.recur = IF @ = "" THEN "None" ELSE @]

\* _compare_value(item), for a text field
_compare_value(tw_v, ti_v) ==
    \/ (ti_v \notin {"None", ""} /\ tw_v = "None")
    \/ (tw_v # "None" /\ tw_v # ti_v)

\* _compare_value('tags'): the field is a list
_compare_tags(tw_v, ti_v) ==
    \/ (ti_v \notin {NoneStr, <<>>} /\ tw_v = NoneStr)
    \/ (tw_v # NoneStr /\ tw_v # ti_v)

\* The task _tw_update_task leaves in memory, field by field.
pulled(tw_task, ti_task) ==
    [tw_task EXCEPT
        !.description = ti_task.description,
        !.project = ti_task.project,
        !.tags = IF _compare_tags(tw_task.tags, ti_task.tags) THEN ti_task.tags ELSE @,
        !.priority = IF _compare_value(tw_task.priority, ti_task.priority)
                     THEN ti_task.priority ELSE @,
        !.entry = IF _compare_value(tw_task.entry, ti_task.entry)
                  THEN ti_task.entry ELSE @,
        !.due = IF _compare_value(tw_task.due, ti_task.due) THEN ti_task.due ELSE @,
        !.recur = IF _compare_value(tw_task.recur, ti_task.recur)
                  THEN ti_task.recur ELSE @,
        !.status = ti_task.status]

pull_always(tw_task, ti_task) == TRUE

\* _tw_update_task's `changed`
pull_changed(tw_task, ti_task) ==
    \/ tw_task.description # ti_task.description
    \/ tw_task.project # ti_task.project
    \/ _compare_tags(tw_task.tags, ti_task.tags)
    \/ _compare_value(tw_task.priority, ti_task.priority)
    \/ _compare_value(tw_task.entry, ti_task.entry)
    \/ _compare_value(tw_task.due, ti_task.due)
    \/ _compare_value(tw_task.recur, ti_task.recur)
    \/ tw_task.status # ti_task.status

\* _tw_update_task(tw_task, ti_task); `fault` names a client call that fails
_tw_update_task(w, tw_task, ti_task, fault, d) ==
    LET body ==
          IF pull_changed(tw_task, ti_task)
          THEN LET w1 == [w EXCEPT !.log = Append(@, E("TW updating", tw_task.uuid,
                                                        ti_task.tid))]
               IN  IF fault = "task_update" THEN Raise(w1)
                   ELSE task_update(w1, Stored([pulled(tw_task, ti_task)
                                                 EXCEPT !.todoist_sync = now]), d)
          ELSE w
    IN  log_on_error(body, tw_task.uuid, ti_task.tid)

\* priority = 0; if 'priority' in tw_task: priority = utils.tw_priority_to_ti(...)
push_priority(tw_task) ==
    IF tw_task.priority # "None" THEN tw_priority_to_ti(tw_task.priority) ELSE 0

\* _ti_update_task's `changed`, the project being in the index
push_changed(tw_task, ti, project) ==
    \/ tw_task.description # ti.content
    \/ ti.project_id # project.id
    \/ ti.priority # push_priority(tw_task)
    \/ (ti.checked = 0 /\ tw_task.status = "completed")
    \/ (ti.checked = 1 /\ tw_task.status = "pending")

\* del(tw_task['status']) when the status is 'waiting'
strip_waiting(tw_task) ==
    IF tw_task.status = "waiting" THEN [tw_task EXCEPT !.status = "None"] ELSE tw_task

\* The commands _ti_update_task queues once `changed` holds, in order.
push_commands(tw_task, ti, project) ==
    << Cmd("item_update", ti.id,
           [ti EXCEPT !.content = tw_task.description,
                      !.priority = push_priority(tw_task)]) >>
    \o (IF ti.project_id # project.id
        THEN << Cmd("item_move", ti.id, [ti EXCEPT !.project_id = project.id]) >>
        ELSE <<>>)
    \o (IF ti.checked = 1 /\ tw_task.status = "pending"
        THEN << Cmd("item_uncomplete", ti.id, ti) >>
        ELSE IF ti.checked = 0 /\ tw_task.status = "completed"
        THEN << Cmd("item_complete", ti.id, ti) >>
        ELSE <<>>)

RECURSIVE log_cmds(_, _, _, _)
log_cmds(log, cmds, uuid, i) ==
    IF i > Len(cmds) THEN log
    ELSE log_cmds(Append(log, E(cmds[i].op, uuid, cmds[i].id)), cmds, uuid, i + 1)

\* _ti_update_task(tw_task, ti_project_list)
_ti_update_task(w, tw_task, index, fault, d) ==
    LET ti == w.items[tw_task.todoist_id]
        body ==
          IF ~DictHas(index, tw_task.project) THEN Raise(w)     \* KeyError
          ELSE IF push_priority(tw_task) = RaisedKeyError THEN Raise(w)
          ELSE
            LET project == DictGet(index, tw_task.project)
                cmds == IF push_changed(tw_task, ti, project)
                        THEN push_commands(tw_task, ti, project) ELSE <<>>
                said == E(IF cmds # <<>> THEN "Updating" ELSE "TI updating",
                          tw_task.uuid, ti.id)
                w1 == [w EXCEPT !.queue = @ \o cmds,
                                !.log = log_cmds(Append(@, said), cmds, tw_task.uuid, 1)]
            IN  IF fault = "items.update" /\ cmds # <<>>
                THEN Raise([w EXCEPT !.log = Append(@, said)])
                ELSE IF fault = "task_update" THEN Raise(w1)
                ELSE task_update(w1, [strip_waiting(tw_task)
                                        EXCEPT !.todoist_sync = now], d)
    IN  log_on_error(body, tw_task.uuid, tw_task.todoist_id)

\* _sync_task(tw_task, ti_task, ti_project_list)
_sync_task(w, tw_task, ti_task, index, fault, d) ==
    IF sync_branch(tw_task) = "_ti_update_task"
    THEN _ti_update_task(w, tw_task, index, fault, d)
    ELSE _tw_update_task(w, tw_task, ti_task, fault, d)

\* The item the service creates for todoist.items.add(content, **data).
new_item(id, tw_task, project) ==
    [id |-> id, content |-> tw_task.description, project_id |-> project.id,
     priority |-> IF tw_task.priority # "None"
                  THEN tw_priority_to_ti(tw_task.priority) ELSE 1,
     labels |-> <<>>, date_added |-> "Mon 02 Nov 2026 10:00:00 +0100",
     due |-> NoDue, checked |-> 0]

_ti_add_task_stamps(w, tw_task, index, fault, d) ==
    log_on_error(task_update(w, [tw_task EXCEPT !.todoist_sync = now], d),
                 tw_task.uuid, 0)

_ti_add_task_unlinked(w, tw_task, index, fault, d) ==
    IF ~DictHas(index, tw_task.project) THEN w
    ELSE LET tid == w.nid
             item == new_item(tid, tw_task, DictGet(index, tw_task.project))
         IN  commit([w EXCEPT !.queue = Append(@, Cmd("item_add", tid, item)),
                              !.nid = tid + 1,
                              !.log = Append(@, E("item_add", tw_task.uuid, tid))])

\* _ti_add_task(tw_task, ti_project_list)
_ti_add_task(w, tw_task, index, fault, d) ==
    LET body ==
          IF ~DictHas(index, tw_task.project)
          THEN [w EXCEPT !.log = Append(@, E("project_not_found", tw_task.uuid, 0))]
          ELSE IF tw_task.priority # "None"
                  /\ tw_priority_to_ti(tw_task.priority) = RaisedKeyError
          THEN Raise(w)
          ELSE IF fault = "items.add" THEN Raise(w)
          ELSE
            LET tid == w.nid
                item == new_item(tid, tw_task, DictGet(index, tw_task.project))
                w1 == [w EXCEPT !.queue = Append(@, Cmd("item_add", tid, item)),
                                !.nid = tid + 1,
                                !.log = Append(@, E("item_add", tw_task.uuid, tid))]
            IN  IF fault = "commit" THEN Raise(w1)
                ELSE IF fault = "task_update" THEN Raise(commit(w1))
                ELSE task_update(commit(w1),
                                 [tw_task EXCEPT !.todoist_id = tid,
                                                 !.todoist_sync = now], d)
    IN  log_on_error(body, tw_task.uuid, 0)

\* _tw_add_task(ti_task): taskwarrior.task_add inside log.with_feedback
_tw_add_task(w, ti_task, fault, d) ==
    LET uuid == w.nuuid
        task == Stored(
            [uuid |-> uuid, description |-> ti_task.description,
             project |-> ti_task.project, tags |-> ti_task.tags,
             priority |-> ti_task.priority, entry |-> ti_task.entry,
             due |-> ti_task.due, recur |-> ti_task.recur,
             status |-> ti_task.status, todoist_id |-> ti_task.tid,
             todoist_sync |-> now, modified |-> now + d])
        body ==
          IF fault = "task_add" THEN Raise(w)
          ELSE [w EXCEPT !.store = @ @@ (uuid :> task), !.nuuid = uuid + 1,
                         !.log = Append(@, E("task_add", uuid, ti_task.tid))]
    IN  log_with_feedback(body)

-----------------------------------------------------------------------------
(* cli.py: the `sync` command, one loop iteration per step.                *)

RECURSIVE sorted(_)
\* The members of a set of integers, ascending.
sorted(S) == IF S = {} THEN <<>> ELSE << Min(S) >> \o sorted(S \ {Min(S)})

\* taskwarrior.load_tasks()['pending'], which holds the waiting tasks too
load_pending(store) ==
    LET U == sorted({ u \in DOMAIN store : store[u].status \in {"pending", "waiting"} })
    IN  [i \in 1..Len(U) |-> store[U[i]]]

\* todoist.items.all()
items_all(items) ==
    LET I == sorted(DOMAIN items) IN [i \in 1..Len(I) |-> items[I[i]]]

\* The answers a user gives at the recurrence prompt, already validated.
PromptAnswers == {"None", "weekly"}

FaultChoices ==
    IF faults_left > 0
    THEN {"none", "items.add", "items.update", "commit", "task_update", "task_add"}
    ELSE {"none"}

Left(uuids, ids, ok) == [uuids |-> uuids, ids |-> ids, ok |-> ok]

\* A handler's world becomes the state.
Becomes(w) ==
    /\ ti_items' = w.items
    /\ ti_queue' = w.queue
    /\ tw_store' = w.store
    /\ next_id' = w.nid
    /\ next_uuid' = w.nuuid
    /\ calls' = w.log

\* An exception no wrapper caught ends the process; what was queued is lost.
Aborts(w) ==
    /\ ti_items' = w.items
    /\ ti_queue' = <<>>
    /\ tw_store' = w.store
    /\ next_id' = w.nid
    /\ next_uuid' = w.nuuid
    /\ calls' = Append(w.log, E("uncaught", 0, 0))
    /\ pc' = "idle"
    /\ cmd' = Ended("sync", FALSE, "clients", 1, TRUE)
    /\ prev_run' = Append(prev_run, Left(DOMAIN w.store, DOMAIN w.items, FALSE))
    /\ UNCHANGED t_idx

SpendFault(w, w0) ==
    faults_left' = IF w = w0 THEN faults_left ELSE faults_left - 1

\* titwsync sync, up to ctx.invoke(synchronize)
SyncStart(help) ==
    LET group == cli(rcfile, help) IN
    /\ pc = "idle"
    /\ runs < MaxRuns
    /\ IF group \in {"exit1", "raise"}
       THEN /\ cmd' = Ended("sync", help, group, 1, FALSE)
            /\ UNCHANGED <<cache_dir, pc, p_idx, ti_project_list, calls, runs>>
       ELSE IF help
       THEN /\ cmd' = Ended("sync", help, group, 0, FALSE)
            /\ UNCHANGED <<cache_dir, pc, p_idx, ti_project_list, calls, runs>>
       ELSE IF group = "noclient"                    \* None.sync()
       THEN /\ cmd' = Ended("sync", help, group, 1, TRUE)
            /\ UNCHANGED <<cache_dir, pc, p_idx, ti_project_list, calls, runs>>
       ELSE /\ cache_dir' = "populated"
            /\ cmd' = Ended("sync", help, group, -1, TRUE)
            /\ pc' = "projects"
            /\ p_idx' = 1
            /\ ti_project_list' = <<>>
            /\ calls' = <<>>
            /\ runs' = runs + 1
    /\ UNCHANGED <<rcfile, ti_projects, project_hierarchy, pp, tw_tasks, t_idx,
                   tasks, prev_run, fn_arg, fn_ret>>
    /\ StoresIdle

\* Lines 141-148: the index is built; the pending local tasks are loaded.
SyncLoad ==
    /\ pc = "projects"
    /\ p_idx > Len(ti_projects)
    /\ tw_tasks' = load_pending(tw_store)
    /\ t_idx' = 1
    /\ pc' = "pass1"
    /\ UNCHANGED <<rcfile, cache_dir, ti_projects, cmd, tasks, calls, runs,
                   prev_run, fn_arg, fn_ret>>
    /\ IndexIdle /\ StoresIdle

\* The task of this iteration, after `tw_task['project'] = default_project`.
with_default_project(tw_task) ==
    IF tw_task.project = NoneStr THEN [tw_task EXCEPT !.project = default_project]
    ELSE tw_task

RunFrame == UNCHANGED <<rcfile, cache_dir, ti_projects, tw_tasks, tasks, runs,
                        fn_arg, fn_ret>>

pass1_skips_nothing(tw_task) == FALSE

\* Lines 156-159: the task's project is not enabled
pass1_skips(tw_task) == not_enabled(tw_task.project)

pass1_vanished_or_unlinked(tw_task, items) == tw_task.todoist_id \notin DOMAIN items

\* Lines 164-166: the task is linked and the remote task is gone
pass1_vanished(tw_task, items) ==
    tw_task.todoist_id # 0 /\ tw_task.todoist_id \notin DOMAIN items

pass2_skips_nothing(c_ti_task) == FALSE

\* Lines 194-197: the remote task's resolved project is not enabled
pass2_skips(c_ti_task) == not_enabled(c_ti_task.project)

\* Lines 149-179: one iteration of the Taskwarrior->Todoist loop
Pass1Task ==
    /\ pc = "pass1"
    /\ t_idx <= Len(tw_tasks)
    /\ LET tw_task == with_default_project(tw_tasks[t_idx])
           w0 == World
       IN  \E fault \in FaultChoices, d \in {0, 1}, answer \in PromptAnswers :
           IF pass1_skips(tw_task)
           THEN /\ Becomes([w0 EXCEPT !.log = Append(@, E("ignore", tw_task.uuid,
                                                          tw_task.todoist_id))])
                /\ t_idx' = t_idx + 1
                /\ UNCHANGED <<pc, cmd, prev_run, now, faults_left>>
           ELSE IF pass1_vanished(tw_task, ti_items)
           THEN /\ Becomes(task_delete(w0, tw_task.uuid))
                /\ t_idx' = t_idx + 1
                /\ UNCHANGED <<pc, cmd, prev_run, now, faults_left>>
           ELSE IF tw_task.todoist_id # 0
           THEN IF convert_raises(ti_items[tw_task.todoist_id])
                THEN Aborts(w0) /\ UNCHANGED <<now, faults_left>>
                ELSE LET c_ti_task == _convert_ti_task(ti_items[tw_task.todoist_id],
                                                       ti_project_list, answer)
                         w == _sync_task(w0, tw_task, c_ti_task, ti_project_list,
                                         fault, d)
                     IN  /\ Becomes(w)
                         /\ SpendFault(_sync_task(w0, tw_task, c_ti_task,
                                                  ti_project_list, "none", d), w)
                         /\ t_idx' = t_idx + 1
                         /\ now' = now + 1
                         /\ UNCHANGED <<pc, cmd, prev_run>>
           ELSE LET w == _ti_add_task(w0, tw_task, ti_project_list, fault, d)
                IN  /\ Becomes(w)
                    /\ SpendFault(_ti_add_task(w0, tw_task, ti_project_list,
                                               "none", d), w)
                    /\ t_idx' = t_idx + 1
                    /\ now' = now + 1
                    /\ UNCHANGED <<pc, cmd, prev_run>>
    /\ RunFrame /\ IndexIdle

\* Lines 181-187: commit, re-sync, fetch every remote task
Commit1 ==
    /\ pc = "pass1"
    /\ t_idx > Len(tw_tasks)
    /\ Becomes(commit(World))
    /\ tasks' = items_all(apply_queue(ti_items, ti_queue, 1))
    /\ t_idx' = 1
    /\ pc' = "pass2"
    /\ UNCHANGED <<rcfile, cache_dir, ti_projects, cmd, tw_tasks, runs, prev_run,
                   now, faults_left, fn_arg, fn_ret>>
    /\ IndexIdle

\* Lines 188-211: one iteration of the Todoist->Taskwarrior loop
Pass2Task ==
    /\ pc = "pass2"
    /\ t_idx <= Len(tasks)
    /\ LET ti_task == tasks[t_idx]
           w0 == World
       IN  \E fault \in FaultChoices, d \in {0, 1}, answer \in PromptAnswers :
           IF convert_raises(ti_task)
           THEN Aborts(w0) /\ UNCHANGED <<now, faults_left>>
           ELSE
             LET c_ti_task == _convert_ti_task(ti_task, ti_project_list, answer)
                 found == get_task(tw_store, ti_task.id)
             IN  IF pass2_skips(c_ti_task)
                 THEN /\ Becomes([w0 EXCEPT !.log = Append(@, E("ignore", 0, ti_task.id))])
                      /\ t_idx' = t_idx + 1
                      /\ UNCHANGED <<pc, cmd, prev_run, now, faults_left>>
                 ELSE IF found # {}
                 THEN LET tw_task == with_default_project(tw_store[Min(found)])
                          w == _sync_task(w0, tw_task, c_ti_task, ti_project_list,
                                          fault, d)
                      IN  /\ Becomes(w)
                          /\ SpendFault(_sync_task(w0, tw_task, c_ti_task,
                                                   ti_project_list, "none", d), w)
                          /\ t_idx' = t_idx + 1
                          /\ now' = now + 1
                          /\ UNCHANGED <<pc, cmd, prev_run>>
                 ELSE LET w == _tw_add_task(w0, c_ti_task, fault, d)
                      IN  IF w.raised
                          THEN Aborts(w) /\ faults_left' = faults_left - 1
                                         /\ UNCHANGED now
                          ELSE /\ Becomes(w)
                               /\ t_idx' = t_idx + 1
                               /\ now' = now + 1
                               /\ UNCHANGED <<pc, cmd, prev_run, faults_left>>
    /\ RunFrame /\ IndexIdle

\* Lines 213-215: commit and re-sync; the command returns
Commit2 ==
    /\ pc = "pass2"
    /\ t_idx > Len(tasks)
    /\ Becomes(commit(World))
    /\ pc' = "idle"
    /\ cmd' = Ended("sync", FALSE, "clients", 0, TRUE)
    /\ prev_run' = Append(prev_run,
                         Left(DOMAIN tw_store, DOMAIN apply_queue(ti_items, ti_queue, 1),
                              \A i \in 1..Len(calls) : calls[i].op # "error"))
    /\ UNCHANGED <<rcfile, cache_dir, ti_projects, tw_tasks, tasks, t_idx, runs,
                   now, faults_left, fn_arg, fn_ret>>
    /\ IndexIdle

-----------------------------------------------------------------------------
(* migrate.py: the standalone one-way import.                             *)

MaxMigrations == 2   \* `migrate` invocations in one behaviour
MaxImport     == 2   \* remote tasks the migration finds

PRIORITIES == (1 :> "None") @@ (2 :> "L") @@ (3 :> "M") @@ (4 :> "H")

\* taskwarrior_priority(priority): PRIORITIES[priority]
taskwarrior_priority(priority) ==
    IF priority \in DOMAIN PRIORITIES THEN PRIORITIES[priority] ELSE KeyError

\* taskwarrior_date(date): strptime(...).isoformat() keeps the offset
taskwarrior_date(date) ==
    IF date = "" THEN "None"
    ELSE IF date = "Mon 02 Nov 2026 10:00:00 +0100" THEN "2026-11-02T10:00:00+01:00"
    ELSE "2014-09-26T08:25:05+00:00"

\* The conversions of lines 33-42 raise: a project that is not cached
\* (None['name']) or a priority outside PRIORITIES.
migrate_raises(task) ==
    \/ projects_get_by_id(task.project_id) = NoProject
    \/ taskwarrior_priority(task.priority) = KeyError

add_task_once(w, tid, name, project, tags, priority, entry, due, fault, d) ==
    IF \E u \in DOMAIN w.store : w.store[u].description = name
    THEN w
    ELSE [w EXCEPT !.store = @ @@ (w.nuuid :>
                      [uuid |-> w.nuuid, description |-> name, project |-> project,
                       tags |-> tags, priority |-> priority, entry |-> entry,
                       due |-> due, recur |-> "None", status |-> "pending",
                       todoist_id |-> 0, todoist_sync |-> 0, modified |-> now + d]),
                   !.nuuid = w.nuuid + 1,
                   !.log = Append(@, E("OK", w.nuuid, tid))]

\* add_task(tid, name, project, tags, priority, entry, due): any failure of
\* taskwarrior.task_add is reported as FAILED and swallowed; tid is not stored
add_task(w, tid, name, project, tags, priority, entry, due, fault, d) ==
    IF fault = "task_add"
    THEN [w EXCEPT !.log = Append(@, E("FAILED", 0, tid))]
    ELSE [w EXCEPT !.store = @ @@ (w.nuuid :> Stored(
                      [uuid |-> w.nuuid, description |-> name, project |-> project,
                       tags |-> tags, priority |-> priority, entry |-> entry,
                       due |-> due, recur |-> "None", status |-> "pending",
                       todoist_id |-> 0, todoist_sync |-> 0, modified |-> now + d])),
                   !.nuuid = w.nuuid + 1,
                   !.log = Append(@, E("OK", w.nuuid, tid))]

MigrateFrame ==
    UNCHANGED <<rcfile, cache_dir, ti_projects, p_idx, project_hierarchy, pp,
                ti_project_list, tw_tasks, fn_arg, fn_ret>>

\* migrate [-i] [--no-sync], lines 25-31: the remote tasks are fetched
MigrateStart(interactive, no_sync) ==
    /\ pc = "idle"
    /\ runs < MaxMigrations
    /\ pc' = "migrate"
    /\ cmd' = [name |-> "migrate", interactive |-> interactive, no_sync |-> no_sync]
    /\ tasks' = items_all(ti_items)
    /\ t_idx' = 1
    /\ calls' = IF no_sync THEN <<>> ELSE << E("sync", 0, 0) >>
    /\ runs' = runs + 1
    /\ UNCHANGED <<ti_items, tw_store, now, next_id, next_uuid, ti_queue,
                   faults_left, prev_run>>
    /\ MigrateFrame

\* Lines 32-47: one iteration of the loop; `confirm` is the user's answer
\* when the run is interactive
MigrateTask ==
    /\ pc = "migrate"
    /\ t_idx <= Len(tasks)
    /\ LET task == tasks[t_idx] IN
       \E confirm \in BOOLEAN, fault \in FaultChoices \cap {"none", "task_add"} :
          IF migrate_raises(task)
          THEN /\ calls' = Append(calls, E("uncaught", 0, task.id))
               /\ pc' = "idle"
               /\ prev_run' = Append(prev_run,
                                     Left(DOMAIN tw_store, DOMAIN ti_items, FALSE))
               /\ UNCHANGED <<tw_store, next_uuid, t_idx, now, faults_left>>
          ELSE IF cmd.interactive /\ ~confirm
          THEN /\ calls' = Append(calls, E("declined", 0, task.id))
               /\ t_idx' = t_idx + 1
               /\ UNCHANGED <<tw_store, next_uuid, pc, prev_run, now, faults_left>>
          ELSE LET w == add_task(World, task.id, task.content,
                                 projects_get_by_id(task.project_id).name,
                                 [i \in 1..Len(task.labels) |->
                                     LabelName[task.labels[i]]],
                                 taskwarrior_priority(task.priority),
                                 taskwarrior_date(task.date_added),
                                 taskwarrior_date(""), fault, 0)
               IN  /\ tw_store' = w.store
                   /\ next_uuid' = w.nuuid
                   /\ calls' = w.log
                   /\ faults_left' = IF fault = "none" THEN faults_left
                                     ELSE faults_left - 1
                   /\ t_idx' = t_idx + 1
                   /\ UNCHANGED <<pc, prev_run, now>>
    /\ UNCHANGED <<ti_items, next_id, ti_queue, tasks, runs, cmd>>
    /\ MigrateFrame

\* The loop is over: the command returns.  The run is recorded as one that
\* imported everything when nothing was declined and nothing failed.
MigrateEnd ==
    /\ pc = "migrate"
    /\ t_idx > Len(tasks)
    /\ pc' = "idle"
    /\ prev_run' = Append(prev_run,
          Left(DOMAIN tw_store, DOMAIN ti_items,
               \A i \in 1..Len(calls) : calls[i].op \notin {"declined", "FAILED"}))
    /\ UNCHANGED <<ti_items, tw_store, now, next_id, next_uuid, ti_queue,
                   faults_left, tasks, t_idx, calls, runs, cmd>>
    /\ MigrateFrame

-----------------------------------------------------------------------------
(* Support functions called on their own.                                  *)

Call(fn, int_arg, str_arg, int_ret, str_ret) ==
    [fn |-> fn, int_arg |-> int_arg, str_arg |-> str_arg,
     int_ret |-> int_ret, str_ret |-> str_ret]

FnFrame ==
    UNCHANGED <<rcfile, cache_dir, ti_projects, ti_items, tw_store, now, next_id,
                next_uuid, pc, cmd, p_idx, project_hierarchy, pp, ti_project_list,
                tw_tasks, t_idx, tasks, calls, runs, prev_run, ti_queue,
                faults_left, fn_arg>>

\* utils.tw_priority_to_ti on the given local priority, or on what the
\* previous call returned
CallTwPriorityToTi ==
    /\ pc = "fn"
    /\ Len(fn_ret) < 2
    /\ LET arg == IF fn_ret = <<>> THEN fn_arg.tw ELSE fn_ret[Len(fn_ret)].str_ret
       IN  /\ fn_ret # <<>> => /\ fn_ret[Len(fn_ret)].fn = "ti_priority_to_tw"
                               /\ fn_ret[Len(fn_ret)].str_ret # KeyError
           /\ fn_ret' = Append(fn_ret, Call("tw_priority_to_ti", 0, arg,
                                            tw_priority_to_ti(arg), ""))
    /\ FnFrame

\* utils.ti_priority_to_tw on the given remote priority, or on what the
\* previous call returned
CallTiPriorityToTw ==
    /\ pc = "fn"
    /\ Len(fn_ret) < 2
    /\ LET arg == IF fn_ret = <<>> THEN fn_arg.ti ELSE fn_ret[Len(fn_ret)].int_ret
       IN  /\ fn_ret # <<>> => /\ fn_ret[Len(fn_ret)].fn = "tw_priority_to_ti"
                               /\ fn_ret[Len(fn_ret)].int_ret # RaisedKeyError
           /\ fn_ret' = Append(fn_ret, Call("ti_priority_to_tw", arg, "", 0,
                                            ti_priority_to_tw(arg)))
    /\ FnFrame

\* utils.parse_recur_string on the given phrase
CallParseRecurString ==
    /\ pc = "fn"
    /\ fn_ret = <<>>
    /\ fn_ret' = << Call("parse_recur_string", 0, fn_arg.phrase, 0,
                         parse_recur_string(fn_arg.phrase)) >>
    /\ FnFrame

\* _convert_ti_task on the remote task and the project index of the state
CallConvertTiTask ==
    /\ pc = "fn"
    /\ fn_ret = <<>>
    /\ \E id \in DOMAIN ti_items, answer \in PromptAnswers :
          fn_ret' = << Call("_convert_ti_task", ti_items[id].project_id, "", 0,
                            _convert_ti_task(ti_items[id], ti_project_list,
                                             answer).project) >>
    /\ FnFrame

\* _tw_update_task on local task 1 and the converted remote task, once more
\* after it has returned
CallTwUpdateTask ==
    /\ pc = "fn"
    /\ Len(fn_ret) < MaxPulls
    /\ \E d \in {0, 1} :
          LET tw_task == with_default_project(tw_store[1])
              w == _tw_update_task(World, tw_task, fn_arg.c_ti_task, "none", d)
          IN  /\ tw_store' = w.store
              /\ calls' = w.log
              /\ fn_ret' = Append(fn_ret,
                                  Call("_tw_update_task", 1, "",
                                       IF w.store = tw_store THEN 0 ELSE 1, ""))
    /\ now' = now + 1
    /\ UNCHANGED <<rcfile, cache_dir, ti_projects, ti_items, next_id, next_uuid,
                   pc, cmd, p_idx, project_hierarchy, pp, ti_project_list,
                   tw_tasks, t_idx, tasks, runs, prev_run, ti_queue, faults_left,
                   fn_arg>>

-----------------------------------------------------------------------------
(* Initial states.                                                         *)

Project(id, name, parent_id) == [id |-> id, name |-> name, parent_id |-> parent_id]

\* The remote projects of the reconciliation scenarios: Inbox, Work and
\* Work's child Errands.
SyncProjects ==
    << Project(1, N_Inbox, 0), Project(2, N_Work, 0), Project(3, N_Errands, 2) >>

\* `configure -p 'Work.Errands=errands' KEY`, then project_sync edited by
\* hand: Work is mapped to false, ghost names no remote project, and Inbox
\* is enabled or left out.
SyncConfig(inbox) ==
    [state |-> "ok", api_key |-> "key",
     project_map |-> << [k |-> N_WorkErrands, v |-> N_errands] >>,
     tag_map |-> << [k |-> "office", v |-> "work"] >>,
     project_sync |->
        << [k |-> N_errands, v |-> TRUE], [k |-> N_Work, v |-> FALSE],
           [k |-> N_ghost, v |-> TRUE] >>
        \o (IF inbox THEN << [k |-> N_Inbox, v |-> TRUE] >> ELSE <<>>)]

\* A local task; stamps = <<todoist_sync, modified>>.
LocalTask(uuid, description, project, priority, status, tid, stamps) ==
    [uuid |-> uuid, description |-> description, project |-> project,
     tags |-> NoneStr, priority |-> priority, entry |-> "20261102T100000Z",
     due |-> "None", recur |-> "None", status |-> status,
     todoist_id |-> tid, todoist_sync |-> stamps[1], modified |-> stamps[2]]

RemoteTask(id, content, project_id, priority, checked) ==
    [id |-> id, content |-> content, project_id |-> project_id,
     priority |-> priority, labels |-> <<>>,
     date_added |-> "Mon 02 Nov 2026 10:00:00 +0100", due |-> NoDue,
     checked |-> checked]

\* <<todoist_sync, modified>> of a linked local task: no todoist_sync field,
\* edited since the last sync, untouched since the last sync.
Stamps == { <<0, 2>>, <<1, 2>>, <<2, 2>> }

\* How an initial local task stands: not linked, or linked with these stamps.
Links == { <<FALSE, <<0, 2>> >> } \cup { <<TRUE, st>> : st \in Stamps }

\* What is the same in every initial state.
InitRest ==
    /\ now = 10
    /\ next_id = MaxLocal + MaxRemote + 1
    /\ next_uuid = MaxLocal + 1
    /\ cmd = Ended("", FALSE, "", 0, FALSE)
    /\ p_idx = 1
    /\ project_hierarchy = <<>>
    /\ pp = NoProject
    /\ ti_project_list = <<>>
    /\ tw_tasks = <<>>
    /\ t_idx = 1
    /\ tasks = <<>>
    /\ calls = <<>>
    /\ runs = 0
    /\ prev_run = <<>>
    /\ ti_queue = <<>>
    /\ faults_left = 0
    /\ fn_ret = <<>>

\* Several tasks on each side; local task u, when linked, is linked to the
\* remote identifier u, which the remote store holds or has lost.
Init ==
    /\ pc = "idle"
    /\ rcfile = SyncConfig(FALSE)
    /\ ti_projects = SyncProjects
    /\ cache_dir = "populated"
    /\ fn_arg = [tw |-> "None", ti |-> 1]
    /\ \E D \in SUBSET (1..MaxLocal) :
         \E k \in [D -> {NoneStr, N_errands, N_ghost} \X {"None", "H"} \X Links] :
            tw_store = [u \in D |->
                LocalTask(u, "a", k[u][1], k[u][2], "pending",
                          IF k[u][3][1] THEN u ELSE 0, k[u][3][2])]
    /\ \E D \in SUBSET (1..MaxRemote) :
         \E k \in [D -> {2, 3}] :
            ti_items = [i \in D |->
                RemoteTask(i, IF i = 1 THEN "b" ELSE "a", k[i], 1, 0)]
    /\ InitRest

Next ==
    \/ SyncStart(FALSE)
    \/ ProjectBegin
    \/ WalkParent
    \/ ProjectIndexed
    \/ SyncLoad
    \/ Pass1Task
    \/ Commit1
    \/ Pass2Task
    \/ Commit2

Spec == Init /\ [][Next]_vars

-----------------------------------------------------------------------------
(* `sync` with client calls that fail: the tasks are in the enabled project *)
(* errands, the local ones with priority H.                                 *)

InitFault ==
    /\ pc = "idle"
    /\ rcfile = SyncConfig(FALSE)
    /\ ti_projects = SyncProjects
    /\ cache_dir = "populated"
    /\ fn_arg = [tw |-> "None", ti |-> 1]
    /\ \E D \in SUBSET (1..MaxLocal) :
         \E k \in [D -> Links] :
            tw_store = [u \in D |->
                LocalTask(u, "a", N_errands, "H", "pending",
                          IF k[u][1] THEN u ELSE 0, k[u][2])]
    /\ \E D \in SUBSET (1..MaxRemote) :
            ti_items = [i \in D |-> RemoteTask(i, IF i = 1 THEN "b" ELSE "a", 3, 1, 0)]
    /\ now = 10
    /\ next_id = MaxLocal + MaxRemote + 1
    /\ next_uuid = MaxLocal + 1
    /\ cmd = Ended("", FALSE, "", 0, FALSE)
    /\ p_idx = 1
    /\ project_hierarchy = <<>>
    /\ pp = NoProject
    /\ ti_project_list = <<>>
    /\ tw_tasks = <<>>
    /\ t_idx = 1
    /\ tasks = <<>>
    /\ calls = <<>>
    /\ runs = 0
    /\ prev_run = <<>>
    /\ ti_queue = <<>>
    /\ faults_left = MaxFaults
    /\ fn_ret = <<>>

SpecFault == InitFault /\ [][Next]_vars

-----------------------------------------------------------------------------
(* The priority conversions on their own.                                  *)

\* Local priorities handed to tw_priority_to_ti: the four the local store
\* knows ("None" is the absent field) and values it does not.
TwPriorities == {"None", "L", "M", "H", "X", "h", ""}

\* Remote priorities handed to ti_priority_to_tw.
TiPriorities == 0..5

EmptyStores ==
    /\ ti_items = <<>>
    /\ tw_store = <<>>

InitPrio ==
    /\ pc = "fn"
    /\ rcfile = NoConfig
    /\ cache_dir = "absent"
    /\ ti_projects = <<>>
    /\ EmptyStores
    /\ fn_arg \in [tw : TwPriorities, ti : TiPriorities]
    /\ InitRest

NextPrio == CallTwPriorityToTi \/ CallTiPriorityToTw

SpecPrio == InitPrio /\ [][NextPrio]_vars

-----------------------------------------------------------------------------
(* _ti_project_list over every small project forest.                       *)

ProjectNames == {N_Work, N_Errands, N_MyStuff}

RECURSIVE reaches_root(_, _, _)
\* Following parent links from project i ends at a root within `fuel` steps.
reaches_root(projects, i, fuel) ==
    IF projects[i].parent_id = 0 THEN TRUE
    ELSE IF fuel = 0 THEN FALSE
    ELSE reaches_root(projects, projects[i].parent_id, fuel - 1)

\* The projects with these names and parent links; the remote service's
\* invariant is that parent links are acyclic.
Forest(names, parents) ==
    [i \in 1..Len(parents) |-> Project(i, names[i], parents[i])]

InitProj ==
    /\ pc = "projects"
    /\ \E m \in ProjectMaps :
          rcfile = [state |-> "ok", api_key |-> "key", project_map |-> m,
                    tag_map |-> <<>>,
                    project_sync |-> project_sync_of(m, Len(m))]
    /\ cache_dir = "populated"
    /\ \E n \in 1..MaxProjects :
         \E parents \in [1..n -> 0..n] :
            /\ \A i \in 1..n : reaches_root(Forest(parents, parents), i, n)
            /\ \E names \in [1..n -> ProjectNames] :
                  ti_projects = Forest(names, parents)
    /\ EmptyStores
    /\ fn_arg = [tw |-> "None", ti |-> 1]
    /\ InitRest

NextProj == ProjectBegin \/ WalkParent \/ ProjectIndexed \/ SyncLoad

SpecProj == InitProj /\ [][NextProj]_vars

-----------------------------------------------------------------------------
(* The command group in every state of the configuration file.             *)

RcStates == {"absent", "empty", "no_todoist", "no_api_key"}

InitCli ==
    /\ pc = "idle"
    /\ \/ \E st \in RcStates : rcfile = [NoConfig EXCEPT !.state = st]
       \/ rcfile = SyncConfig(TRUE)
    /\ cache_dir \in {"absent", "empty", "populated"}
    /\ ti_projects = SyncProjects
    /\ tw_store = (1 :> LocalTask(1, "a", N_Inbox, "None", "pending", 0, <<0, 2>>))
    /\ ti_items = (1 :> RemoteTask(1, "b", 1, 1, 0))
    /\ fn_arg = [tw |-> "None", ti |-> 1]
    /\ InitRest

NextCli ==
    \/ \E m \in ProjectMaps, help \in BOOLEAN : Configure(m, <<>>, "key", help)
    \/ \E help \in BOOLEAN : Synchronize(help)
    \/ \E help, confirmed \in BOOLEAN : Clean(help, confirmed)
    \/ \E help \in BOOLEAN : SyncStart(help)

SpecCli == InitCli /\ [][NextCli]_vars

-----------------------------------------------------------------------------
(* The standalone migration, run repeatedly against one remote task set.  *)

InitMigrate ==
    /\ pc = "idle"
    /\ rcfile = NoConfig
    /\ ti_projects = SyncProjects
    /\ cache_dir = "populated"
    /\ fn_arg = [tw |-> "None", ti |-> 1]
    /\ \E D \in SUBSET (1..MaxLocal) :
          tw_store = [u \in D |-> LocalTask(u, "a", N_Work, "None", "pending",
                                            0, <<0, 2>>)]
    /\ \E n \in 0..MaxImport :
         \E k \in [1..n -> { <<"a", 1>>, <<"b", 4>>, <<"a", 0>> }] :
            ti_items = [i \in 1..n |-> RemoteTask(i, k[i][1], 2, k[i][2], 0)]
    /\ now = 10
    /\ next_id = MaxImport + 1
    /\ next_uuid = MaxLocal + 1
    /\ cmd = [name |-> "", interactive |-> FALSE, no_sync |-> FALSE]
    /\ p_idx = 1
    /\ project_hierarchy = <<>>
    /\ pp = NoProject
    /\ ti_project_list = <<>>
    /\ tw_tasks = <<>>
    /\ t_idx = 1
    /\ tasks = <<>>
    /\ calls = <<>>
    /\ runs = 0
    /\ prev_run = <<>>
    /\ ti_queue = <<>>
    /\ faults_left = 1
    /\ fn_ret = <<>>

NextMigrate ==
    \/ \E interactive, no_sync \in BOOLEAN : MigrateStart(interactive, no_sync)
    \/ MigrateTask
    \/ MigrateEnd

SpecMigrate == InitMigrate /\ [][NextMigrate]_vars

-----------------------------------------------------------------------------
(* Recurrence parsing on its own.                                          *)

\* Phrases of every family and of none, word by word.
PhraseWords ==
    { <<"daily">>, <<"monthly">>, <<"every", "day">>, <<"every", "1", "day">>,
      <<"every", "2", "weeks">>, <<"every", "other", "week">>,
      <<"ev", "3rd", "month">>, <<"every", "monday">>,
      <<"every", "other", "monday">>, <<"every", "2nd", "tue">>,
      <<"every", "1", "monday">>, <<"every", "1st", "monday">>,
      <<"ev", "3", "fri">>, <<"every", "12th", "sunday">>,
      <<"every", "3rd">>, <<"every", "12">>, <<"every", "weekday">>,
      <<"every", "morning">>, <<"every", "last", "day">>,
      <<"every", "day", "at", "9:00">>, <<"every", "blue", "moon">>,
      <<"monday">> }

\* The phrase as typed: blanks before, between and after the words, and
\* capitals where `cap` is set.
Typed(words, lead, sep, trail, cap) ==
    LET w(i) == IF cap /\ words[i] \in DOMAIN Capital THEN Capital[words[i]]
                ELSE words[i]
        body == [i \in 1..(2 * Len(words) - 1) |->
                    IF i % 2 = 1 THEN w((i + 1) \div 2) ELSE Blanks(sep)]
    IN  (IF lead > 0 THEN << Blanks(lead) >> ELSE <<>>) \o body
        \o (IF trail > 0 THEN << Blanks(trail) >> ELSE <<>>)

InitRecur ==
    /\ pc = "fn"
    /\ rcfile = NoConfig
    /\ cache_dir = "absent"
    /\ ti_projects = <<>>
    /\ EmptyStores
    /\ \E words \in PhraseWords, lead, trail \in 0..MaxPad, sep \in 1..(MaxPad + 1),
          cap \in BOOLEAN :
          fn_arg = [phrase |-> Typed(words, lead, sep, trail, cap)]
    /\ InitRest

NextRecur == CallParseRecurString

SpecRecur == InitRecur /\ [][NextRecur]_vars

-----------------------------------------------------------------------------
(* Remote-task conversion on its own, against any project index.          *)

\* The names under which project 1, 2, ... stands in an index.
IndexNames == << N_Inbox, N_Work, N_errands, N_MyStuff, N_ghost >>

InitConvert ==
    /\ pc = "fn"
    /\ rcfile = SyncConfig(FALSE)
    /\ cache_dir = "populated"
    /\ ti_projects = SyncProjects
    /\ tw_store = <<>>
    /\ \E project_id \in 1..(MaxProjects + 1) :
          ti_items = (1 :> RemoteTask(1, "a", project_id, 1, 0))
    /\ fn_arg = [tw |-> "None", ti |-> 1]
    /\ now = 10
    /\ next_id = 2
    /\ next_uuid = 1
    /\ cmd = Ended("", FALSE, "", 0, FALSE)
    /\ p_idx = 1
    /\ project_hierarchy = <<>>
    /\ pp = NoProject
    /\ \E n \in 0..MaxProjects :
         \E ids \in [1..n -> 1..MaxProjects] :
            /\ \A i, j \in 1..n : i # j => ids[i] # ids[j]
            /\ ti_project_list =
                 [i \in 1..n |-> [k |-> IndexNames[ids[i]],
                                  v |-> Project(ids[i], IndexNames[ids[i]], 0)]]
    /\ tw_tasks = <<>>
    /\ t_idx = 1
    /\ tasks = <<>>
    /\ calls = <<>>
    /\ runs = 0
    /\ prev_run = <<>>
    /\ ti_queue = <<>>
    /\ faults_left = 0
    /\ fn_ret = <<>>

NextConvert == CallConvertTiTask

SpecConvert == InitConvert /\ [][NextConvert]_vars

-----------------------------------------------------------------------------
(* The pull on its own: one linked local task and its remote task, the     *)
(* two differing in any of the fields the pull compares.                   *)

\* The project index of SyncProjects under SyncConfig.
SyncIndex ==
    << [k |-> N_Inbox, v |-> Project(1, N_Inbox, 0)],
       [k |-> N_Work, v |-> Project(2, N_Work, 0)],
       [k |-> N_errands, v |-> Project(3, N_Errands, 2)] >>

\* Due objects of a remote task: none, a date, a date that recurs daily.
Dues ==
    { NoDue,
      [set |-> TRUE, date |-> "2026-11-03T12:00:00", string |-> << "3", " ", "Nov" >>,
       is_recurring |-> FALSE],
      [set |-> TRUE, date |-> "2026-11-03T12:00:00",
       string |-> << "Every", " ", "day" >>, is_recurring |-> TRUE] }

InitPull ==
    /\ pc = "fn"
    /\ rcfile = SyncConfig(TRUE)
    /\ cache_dir = "populated"
    /\ ti_projects = SyncProjects
    /\ ti_project_list = SyncIndex
    /\ \E description \in {"a", "b"}, project \in {NoneStr, N_errands},
          priority \in {"None", "H"}, tags \in {NoneStr, << "work" >>},
          due \in {"None", "20261103T120000Z"}, status \in {"pending", "completed"} :
          tw_store = (1 :> [LocalTask(1, description, project, priority, status,
                                      1, <<2, 2>>)
                              EXCEPT !.tags = tags, !.due = due])
    /\ \E project_id \in {1, 3}, priority \in {1, 4}, labels \in {<<>>, << 2 >>},
          due \in Dues, checked \in {0, 1} :
          ti_items = (1 :> [RemoteTask(1, "a", project_id, priority, checked)
                              EXCEPT !.labels = labels, !.due = due])
    /\ fn_arg = [c_ti_task |-> _convert_ti_task(ti_items[1], ti_project_list, "None")]
    /\ now = 10
    /\ next_id = 2
    /\ next_uuid = 2
    /\ cmd = Ended("", FALSE, "", 0, FALSE)
    /\ p_idx = 1
    /\ project_hierarchy = <<>>
    /\ pp = NoProject
    /\ tw_tasks = <<>>
    /\ t_idx = 1
    /\ tasks = <<>>
    /\ calls = <<>>
    /\ runs = 0
    /\ prev_run = <<>>
    /\ ti_queue = <<>>
    /\ faults_left = 0
    /\ fn_ret = <<>>

NextPull == CallTwUpdateTask

SpecPull == InitPull /\ [][NextPull]_vars

-----------------------------------------------------------------------------
(* Properties of the priority conversions (SpecPrio).                      *)

LocalPriorities == {"None", "L", "M", "H"}

\* C8: for every local priority p in {absent, L, M, H},
\* ti_priority_to_tw(tw_priority_to_ti(p)) = p; for every remote priority r
\* in 1..4, tw_priority_to_ti(ti_priority_to_tw(r)) = r; remote 1 is local
\* absent; tw_priority_to_ti raises for every other value.
PriorityRoundTrip ==
    /\ \A i \in 1..Len(fn_ret) :
         LET c == fn_ret[i] IN
         /\ c.fn = "tw_priority_to_ti" =>
               /\ c.str_arg \in LocalPriorities => c.int_ret \in 1..4
               /\ c.str_arg \notin LocalPriorities => c.int_ret = RaisedKeyError
               /\ c.str_arg = "None" <=> c.int_ret = 1
         /\ c.fn = "ti_priority_to_tw" =>
               /\ c.int_arg \in 1..4 => c.str_ret \in LocalPriorities
               /\ c.int_arg = 1 <=> c.str_ret = "None"
    /\ Len(fn_ret) = 1 => ENABLED NextPrio
                          \/ fn_ret[1].int_ret = RaisedKeyError
                          \/ fn_ret[1].str_ret = KeyError
    /\ Len(fn_ret) = 2 =>
         /\ fn_ret[1].fn = "tw_priority_to_ti" => fn_ret[2].str_ret = fn_ret[1].str_arg
         /\ fn_ret[1].fn = "ti_priority_to_tw" => fn_ret[2].int_ret = fn_ret[1].int_arg

\* 'H' went to the remote scale and came back as 'H'.
PriorityRoundTripSeen ==
    /\ Len(fn_ret) = 2
    /\ fn_ret[1].fn = "tw_priority_to_ti"
    /\ fn_ret[1].str_arg = "H"
    /\ fn_ret[2].fn = "ti_priority_to_tw"
    /\ fn_ret[2].str_ret = "H"

-----------------------------------------------------------------------------
(* Properties of _ti_project_list (SpecProj).                              *)

\* C6: _ti_project_list terminates for every acyclic project forest: the walk
\* from a project to its root visits each project at most once, so the
\* hierarchy it builds never holds more entries than there are projects.
WalkReachesRoot ==
    pc = "walk" => Len(project_hierarchy) <= Len(ti_projects)

RECURSIVE chain_name(_)
\* The names from the root down to project `id`, joined by '.'.
chain_name(id) ==
    LET p == projects_get_by_id(id) IN
    IF p.parent_id = 0 THEN p.name
    ELSE chain_name(p.parent_id) \o <<".">> \o p.name

HasWhitespace(name) == \E i \in 1..Len(name) : name[i] \in {" ", "\t"}

\* The name section 4.18 gives a project: dotted, translated, quoted.
ExpectedName(id) ==
    LET dotted == chain_name(id)
        hits == { i \in 1..Len(rcfile.project_map) : rcfile.project_map[i].k = dotted }
        translated == IF hits = {} THEN dotted
                      ELSE rcfile.project_map[CHOOSE i \in hits : TRUE].v
    IN  IF translated # NoneStr /\ HasWhitespace(translated)
        THEN <<"'">> \o translated \o <<"'">> ELSE translated

RECURSIVE chain(_)
\* The projects from the root down to project `id`.
chain(id) ==
    LET p == projects_get_by_id(id) IN
    IF p.parent_id = 0 THEN << p >> ELSE Append(chain(p.parent_id), p)

IsSuffix(h, c) ==
    /\ Len(h) <= Len(c)
    /\ \A i \in 1..Len(h) : h[i] = c[Len(c) - Len(h) + i]

\* C7: the name under which _ti_project_list indexes a project is made of
\* its ancestors from the root down to the project itself: the hierarchy the
\* walk builds for the project is the lower end of that chain, and a project
\* in the index has for key those names joined by '.', translated through
\* the project map, quoted iff it holds a space or tab, and for value the
\* project itself.
HierarchyNaming ==
    /\ pc = "walk" =>
         IsSuffix(project_hierarchy, chain(ti_projects[p_idx].id))
    /\ \A i \in 1..Len(ti_project_list) :
         LET e == ti_project_list[i] IN
         /\ e.v \in Range(ti_projects)
         /\ e.k = ExpectedName(e.v.id)

-----------------------------------------------------------------------------
(* Properties of the command group (SpecCli).                              *)

\* C9: `configure` succeeds and overwrites the configuration file whatever
\* the file's prior state; the group's configuration check never blocks it.
ConfigureNeverBlocked ==
    (cmd.name = "configure" /\ ~cmd.help) =>
        (cmd.exit = 0 /\ cmd.body /\ rcfile.state = "ok")

Guarded == {"synchronize", "clean", "sync"}

Untouched ==
    /\ cache_dir' = cache_dir
    /\ tw_store' = tw_store
    /\ ti_items' = ti_items
    /\ ti_queue' = ti_queue

-----------------------------------------------------------------------------
(* Properties of `sync` (Spec).                                            *)

Ops(uuid) == { calls[i].op : i \in { j \in 1..Len(calls) : calls[j].uuid = uuid } }

AllOps == { calls[i].op : i \in 1..Len(calls) }

\* A `sync` run has loaded the local tasks and built the project index.
InRun == pc \in {"pass1", "pass2"} \/ (pc = "idle" /\ prev_run # <<>>)

\* C1: when `sync` runs twice in succession and neither run fails, the second
\* run creates no local and no remote task: the local uuids and remote ids
\* after run 2 are those after run 1, and whatever run 2 reconciles it has
\* matched through the stored remote identifier.
NoDuplicateOnSecondRun ==
    (Len(prev_run) = 2 /\ prev_run[1].ok /\ prev_run[2].ok) =>
        /\ prev_run[2].uuids = prev_run[1].uuids
        /\ prev_run[2].ids = prev_run[1].ids
        /\ AllOps \cap {"item_add", "task_add", "task_delete"} = {}
        /\ \A i \in 1..Len(calls) :
             calls[i].op \in {"Updating", "TI updating", "TW updating", "task_update"}
                => /\ calls[i].tid \in prev_run[1].ids
                   /\ calls[i].uuid \in prev_run[1].uuids
                   /\ tw_store[calls[i].uuid].todoist_id = calls[i].tid

\* Two clean runs, the first of which created a task on each side.
SecondRunAfterCreation ==
    /\ Len(prev_run) = 2 /\ prev_run[1].ok /\ prev_run[2].ok
    /\ next_id > MaxLocal + MaxRemote + 1
    /\ next_uuid > MaxLocal + 1
    /\ "TI updating" \in AllOps

\* The local task and the converted remote task _sync_task is about to get.
SyncsInPass1 ==
    /\ pc = "pass1" /\ t_idx <= Len(tw_tasks)
    /\ LET t == with_default_project(tw_tasks[t_idx]) IN
       /\ ~not_enabled(t.project)
       /\ t.todoist_id \in DOMAIN ti_items
       /\ ~convert_raises(ti_items[t.todoist_id])

SyncsInPass2 ==
    /\ pc = "pass2" /\ t_idx <= Len(tasks)
    /\ ~convert_raises(tasks[t_idx])
    /\ ~not_enabled(convert_project(tasks[t_idx], ti_project_list))
    /\ \E u \in DOMAIN tw_store : tw_store[u].todoist_id = tasks[t_idx].id

\* What a step that reconciles local task t with remote task r may do.
SideSelected(t, r) ==
    LET old == tw_store[t.uuid]
        new == tw_store'[t.uuid]
        after == apply_queue(ti_items', ti_queue', 1)[r.id]
    IN  IF t.todoist_sync # 0 /\ t.todoist_sync < t.modified
        THEN \* local is authoritative
             /\ new.description = old.description
             /\ new.priority = old.priority
             /\ new.tags = old.tags
             /\ new.entry = old.entry /\ new.due = old.due /\ new.recur = old.recur
             /\ new.status = old.status
             /\ new.project \in {old.project, default_project}
             /\ \/ /\ calls'[Len(calls')].op = "error"        \* the push failed
                   /\ ti_queue' = ti_queue /\ new = old
                \/ /\ after.content = old.description
                   /\ DictGet(ti_project_list, t.project).id = after.project_id
                   /\ old.priority # "None" => TI_PRIORITY_MAP[after.priority] = old.priority
                   /\ new.todoist_sync = now
        ELSE \* remote is authoritative
             /\ ti_queue' = ti_queue
             /\ ti_items' = ti_items
             /\ new.description = r.content
             /\ new.priority = TI_PRIORITY_MAP[r.priority]
             /\ ti_project_list[CHOOSE i \in 1..Len(ti_project_list) :
                                   ti_project_list[i].k = new.project].v.id = r.project_id
             /\ new.status = IF r.checked = 1 THEN "completed" ELSE "pending"

\* C2: _sync_task on a linked pair: when the local task's last-synced stamp
\* is strictly earlier than its last-modified stamp the local values are
\* pushed to the remote task and no local field is overwritten from remote;
\* when it is later, equal or absent the converted remote values are pulled
\* into the local task and no remote mutation is issued.
AuthoritativeSide ==
    [][ /\ SyncsInPass1 =>
             SideSelected(with_default_project(tw_tasks[t_idx]),
                          ti_items[tw_tasks[t_idx].todoist_id])
        /\ SyncsInPass2 =>
             SideSelected(with_default_project(
                             tw_store[Min(get_task(tw_store, tasks[t_idx].id))]),
                          tasks[t_idx]) ]_vars

\* A run pulled the remote description into the local task, and the next
\* run, the local task being stamped one second after that sync, pushed it.
PushedAndPulled ==
    /\ Len(prev_run) = 2
    /\ \E u \in DOMAIN tw_store :
         /\ tw_store[u].description = "b"
         /\ {"Updating", "item_update"} \subseteq Ops(u)

\* The tasks of tw_tasks['pending'] the Local -> Remote pass skips.
Skipped ==
    { i \in 1..Len(tw_tasks) : not_enabled(with_default_project(tw_tasks[i]).project) }

\* Nothing was done for the task but the 'Ignoring Task' warning.
LeftAlone(t) ==
    /\ t.uuid \in DOMAIN tw_store
    /\ tw_store[t.uuid] = t
    /\ Ops(t.uuid) \subseteq {"ignore"}

RemoteNotEnabled(t) ==
    \A j \in 1..Len(tasks) :
        tasks[j].id = t.todoist_id =>
            not_enabled(convert_project(tasks[j], ti_project_list))

\* The Remote -> Local pass is running or the run is over.
FromPass2 == pc = "pass2" \/ (pc = "idle" /\ prev_run # <<>>)

AtVanished ==
    /\ pc = "pass1" /\ t_idx <= Len(tw_tasks)
    /\ tw_tasks[t_idx].todoist_id # 0
    /\ tw_tasks[t_idx].todoist_id \notin DOMAIN ti_items

\* The task is removed, nothing is created for it, the pass goes on.
DeletedAndOn ==
    /\ tw_tasks[t_idx].uuid \notin DOMAIN tw_store'
    /\ ti_items' = ti_items /\ ti_queue' = ti_queue /\ next_id' = next_id
    /\ pc' = "pass1" /\ t_idx' = t_idx + 1

\* C5 as stated: a local pending task whose remote identifier no longer
\* resolves is removed from the local store during the Local -> Remote pass,
\* no remote task is created for it, and the run continues.
VanishedDeleted ==
    [][ AtVanished => DeletedAndOn ]_vars

\* C5, amended: ... provided the task's project is enabled; a task of a
\* project that is not enabled is skipped before its link is looked at.
VanishedDeletedIfEnabled ==
    [][ AtVanished =>
          IF not_enabled(with_default_project(tw_tasks[t_idx]).project)
          THEN tw_store' = tw_store /\ pc' = "pass1" /\ t_idx' = t_idx + 1
          ELSE DeletedAndOn ]_vars

\* A run went through both passes after deleting a task whose link vanished.
VanishedDeletionSeen ==
    /\ pc = "idle" /\ prev_run # <<>> /\ cmd.exit = 0
    /\ \E i \in 1..Len(tw_tasks) :
         /\ tw_tasks[i].uuid \notin DOMAIN tw_store
         /\ calls[1] = E("task_delete", tw_tasks[i].uuid, tw_tasks[i].todoist_id)

-----------------------------------------------------------------------------
(* Properties of the standalone migration (SpecMigrate).                  *)

\* The local tasks a finished invocation r added.
AddedBy(r) ==
    prev_run[r].uuids \ (IF r = 1 THEN 1..MaxLocal ELSE prev_run[r - 1].uuids)

\* As many of the local tasks U as of the remote tasks carry each title,
\* `times` over.
OnePerRemote(U, times) ==
    \A c \in {"a", "b"} :
        Cardinality({ u \in U : tw_store[u].description = c })
            = times * Cardinality({ i \in DOMAIN ti_items : ti_items[i].content = c })

\* C11: migrate does not deduplicate.  Every invocation in which nothing is
\* declined and no add fails adds exactly one local task per remote task,
\* and after two such invocations against the same N remote tasks the local
\* store holds exactly two new local tasks per remote task, 2N in total.
MigrateTwiceDuplicates ==
    /\ \A r \in 1..Len(prev_run) :
          prev_run[r].ok =>
             /\ Cardinality(AddedBy(r)) = Cardinality(DOMAIN ti_items)
             /\ OnePerRemote(AddedBy(r), 1)
    /\ (pc = "idle" /\ Len(prev_run) = 2 /\ prev_run[1].ok /\ prev_run[2].ok) =>
          /\ Cardinality(DOMAIN tw_store \ (1..MaxLocal))
                = 2 * Cardinality(DOMAIN ti_items)
          /\ OnePerRemote(DOMAIN tw_store \ (1..MaxLocal), 2)

\* Two complete invocations have imported the same two remote tasks, next to
\* a local task that was there before.
MigratedTwice ==
    /\ pc = "idle" /\ Len(prev_run) = 2 /\ prev_run[1].ok /\ prev_run[2].ok
    /\ cmd.name = "migrate" /\ ~cmd.interactive
    /\ Cardinality(DOMAIN ti_items) = 2
    /\ 1 \in DOMAIN tw_store
    /\ Cardinality(DOMAIN tw_store) = 5

-----------------------------------------------------------------------------
(* Properties of the recurrence parsing (SpecRecur).                      *)

RECURSIVE text(_, _)
\* The phrase as it was given, piece after piece.
text(date_string, i) ==
    IF i > Len(date_string) THEN "" ELSE date_string[i] \o text(date_string, i + 1)

\* The literal cases, phrase and recurrence.
LiteralCases ==
    ("daily" :> "daily") @@ ("every day" :> "daily") @@ ("every 1 day" :> "daily") @@
    ("every 2 weeks" :> "2 weeks") @@ ("every other week" :> "2 weeks") @@
    ("every monday" :> "weekly") @@ ("every other monday" :> "2 weeks") @@
    ("every 3rd" :> "monthly") @@ ("every weekday" :> "weekdays") @@
    ("every morning" :> "daily")

\* What the five families say of a normalised phrase, in the order tried.
Families(normal) ==
    << _recur_single_cycle(normal), _recur_multi_cycle(normal),
       _recur_day_of_week(normal), _recur_day_of_month(normal),
       _recur_special(normal) >>

\* The first family that matches decides; `carried` is raised when none does.
FirstMatchOr(normal, carried) ==
    LET f == Families(normal)
        hits == { i \in 1..5 : f[i] # "None" }
    IN  IF hits = {} THEN Unsupported(carried) ELSE f[Min(hits)]

\* The parsed phrases obey the family order and the literal cases.
RecurOrdered(carried(_)) ==
    \A i \in 1..Len(fn_ret) :
        LET phrase == fn_ret[i].str_arg
            given == text(phrase, 1)
        IN  /\ fn_ret[i].str_ret = FirstMatchOr(normalise(phrase), carried(phrase))
            /\ given \in DOMAIN LiteralCases => fn_ret[i].str_ret = LiteralCases[given]

\* C12 as stated: the five families are tried in order single cycle, multi
\* cycle, day of week, day of month, special, the first match wins, the
\* literal cases give the listed recurrences, and a phrase matching no
\* family raises the unsupported-recurrence failure carrying that phrase.
RecurCarriesGivenPhrase == RecurOrdered(LAMBDA phrase : text(phrase, 1))

\* C12, amended: as above, but the failure carries the normalised phrase
\* (trimmed, single-spaced, lower case), which is the given phrase only when
\* that was normalised already.
RecurCarriesNormalisedPhrase == RecurOrdered(LAMBDA phrase : normalise(phrase))

\* A phrase of no family, typed with a capital and extra blanks, was rejected.
RecurRejectedSeen ==
    \E i \in 1..Len(fn_ret) :
        /\ text(fn_ret[i].str_arg, 1) = " Every  blue  moon"
        /\ fn_ret[i].str_ret = "UnsupportedRecurrence: every blue moon"

-----------------------------------------------------------------------------
(* Properties of `sync` under failing client calls (SpecFault).           *)

\* C13: a failure raised while one task is pushed, pulled, created remotely
\* or created locally is logged and suppressed: no failure escapes a pass,
\* so no run is terminated by one and every run that started a pass ends
\* with exit status 0 after both passes.
PerTaskFailureIsolated ==
    /\ \A i \in 1..Len(calls) : calls[i].op # "uncaught"
    /\ (pc = "idle" /\ cmd.name = "sync" /\ cmd.body) => cmd.exit = 0

\* The remote tasks this tool created and the service holds.
CreatedIds == { i \in DOMAIN ti_items : i > MaxLocal + MaxRemote }

\* The local task was given the remote task this run created for it.
LinkedAfterCommit ==
    \A i \in 1..Len(calls) :
        (calls[i].op = "item_add" /\ calls[i].tid \in DOMAIN ti_items
            /\ calls[i].uuid \in DOMAIN tw_store) =>
           /\ tw_store[calls[i].uuid].todoist_id = calls[i].tid
           /\ tw_store[calls[i].uuid].todoist_sync # 0

\* Remote tasks are created for the local tasks of the initial store alone
\* (a local task created by a pull is linked from the start), so no more
\* remote tasks are created than that store can hold.
CreatedAtMostOnce == Cardinality(CreatedIds) <= MaxLocal

\* C14: across any number of runs, suppressed failures of _ti_add_task
\* included, at most one remote task is created for a local pending task,
\* and once a remote task has been created and committed for it the local
\* task carries that remote identifier and a last-synced timestamp.
CreationLinksOnce == LinkedAfterCommit /\ CreatedAtMostOnce

-----------------------------------------------------------------------------
(* Properties of `sync` (Spec): what the push writes.                      *)

\* The commands that write a remote priority.
WritesPriority(c) == c.op \in {"item_add", "item_update"}

\* C15: every remote priority this tool writes, when it creates a remote
\* task or pushes a local one, is an integer in 1..4, and it is 1 when the
\* local task has no priority.
RemotePriorityInRange ==
    /\ \A i \in DOMAIN ti_items : ti_items[i].priority \in 1..4
    /\ \A i \in 1..Len(ti_queue) :
          WritesPriority(ti_queue[i]) =>
             /\ ti_queue[i].item.priority \in 1..4
             /\ \A u \in DOMAIN tw_store :
                   (tw_store[u].todoist_id = ti_queue[i].id
                        /\ tw_store[u].priority = "None") =>
                      ti_queue[i].item.priority = 1

\* The local task and the remote task agree in all that a push compares.
Agrees(tw_task, ti) ==
    /\ tw_task.description = ti.content
    /\ DictHas(ti_project_list, tw_task.project)
    /\ DictGet(ti_project_list, tw_task.project).id = ti.project_id
    /\ ti.priority = (IF tw_task.priority = "None" THEN 1
                      ELSE tw_priority_to_ti(tw_task.priority))
    /\ ~(ti.checked = 0 /\ tw_task.status = "completed")
    /\ ~(ti.checked = 1 /\ tw_task.status = "pending")

\* This step reconciles local task u, the local side is authoritative and
\* the two sides agree.
PushesClean(u) ==
    \/ /\ pc = "pass1" /\ t_idx <= Len(tw_tasks) /\ tw_tasks[t_idx].uuid = u
       /\ LET tw_task == with_default_project(tw_tasks[t_idx]) IN
          /\ ~pass1_skips(tw_task)
          /\ tw_task.todoist_id \in DOMAIN ti_items
          /\ sync_branch(tw_task) = "_ti_update_task"
          /\ Agrees(tw_task, ti_items[tw_task.todoist_id])
    \/ /\ pc = "pass2" /\ t_idx <= Len(tasks)
       /\ ~convert_raises(tasks[t_idx])
       /\ ~pass2_skips(_convert_ti_task(tasks[t_idx], ti_project_list, "None"))
       /\ get_task(tw_store, tasks[t_idx].id) # {}
       /\ u = Min(get_task(tw_store, tasks[t_idx].id))
       /\ LET tw_task == with_default_project(tw_store[u]) IN
          /\ sync_branch(tw_task) = "_ti_update_task"
          /\ Agrees(tw_task, ti_items[tw_task.todoist_id])

\* The step left the remote side alone and refreshed the stamps of u only.
OnlyStampRefreshed(u) ==
    /\ ti_queue' = ti_queue
    /\ ti_items' = ti_items
    /\ u \in DOMAIN tw_store'
    /\ tw_store' = [tw_store EXCEPT ![u].todoist_sync = tw_store'[u].todoist_sync,
                                    ![u].modified = tw_store'[u].modified]

\* C16: a local-authoritative push of a task that agrees with its remote
\* task in description, project, priority (no local priority being the
\* remote priority 1) and completion issues no remote command and leaves the
\* remote task unchanged; the local last-synced stamp alone is refreshed.
CleanPushIsNoOp ==
    [][\A u \in DOMAIN tw_store :
          (PushesClean(u) /\ t_idx' = t_idx + 1) => OnlyStampRefreshed(u)]_vars

\* The events with which a handler that writes local task u back begins.
HandlerStarts(u) ==
    { i \in 1..Len(calls) :
        /\ calls[i].uuid = u
        /\ calls[i].op \in {"item_add", "Updating", "TI updating", "TW updating"} }

Max(S) == CHOOSE x \in S : \A y \in S : x >= y

\* The last handler of the run that wrote u back was _ti_update_task or
\* _tw_update_task, which refreshed the last-synced stamp.
RefreshedByUpdate(u) ==
    /\ HandlerStarts(u) # {}
    /\ calls[Max(HandlerStarts(u))].op # "item_add"
    /\ \E i \in Max(HandlerStarts(u))..Len(calls) :
          calls[i].op = "task_update" /\ calls[i].uuid = u

\* C17: when a run is over in which _ti_update_task or _tw_update_task
\* refreshed the last-synced stamp of a local task and wrote it back, the
\* following run, the user not having edited the task, does not find it
\* modified after its last sync, so the push path is not taken for it again.
CleanPassDoesNotRetrigger ==
    (pc = "idle" /\ cmd.name = "sync" /\ cmd.body /\ cmd.exit = 0) =>
        \A u \in DOMAIN tw_store :
            RefreshedByUpdate(u) => sync_branch(tw_store[u]) # "_ti_update_task"

-----------------------------------------------------------------------------
(* Properties of the remote-task conversion (SpecConvert).               *)

\* C18: for every remote task and every project index, empty or not,
\* _convert_ti_task yields the empty string as the project name when no
\* project of the index has the task's project id, and the index name of a
\* matching project when one has.
ProjectFallback ==
    \A i \in 1..Len(fn_ret) :
        fn_ret[i].fn = "_convert_ti_task" =>
            LET hits == { j \in 1..Len(ti_project_list) :
                            ti_project_list[j].v.id = fn_ret[i].int_arg }
            IN  IF hits = {} THEN fn_ret[i].str_ret = EmptyStr
                ELSE \E j \in hits : fn_ret[i].str_ret = ti_project_list[j].k

-----------------------------------------------------------------------------
(* Properties of `sync` (Spec): deletions.                                *)

\* C19: across any sequence of runs no remote task is ever deleted, and a
\* local task is deleted only if it carries a remote identifier that
\* resolves to no remote task at that moment; a local task without a remote
\* identifier is never deleted.
DeletionOnlyOnVanishedLink ==
    [][/\ DOMAIN ti_items \subseteq DOMAIN ti_items'
       /\ \A u \in DOMAIN tw_store :
             u \notin DOMAIN tw_store' =>
                /\ tw_store[u].todoist_id # 0
                /\ tw_store[u].todoist_id \notin DOMAIN ti_items]_vars

\* A run has deleted a local task whose remote task was gone.
DeletedOnVanishedLink ==
    /\ pc = "idle" /\ Len(prev_run) >= 1
    /\ \E i \in 1..Len(calls) :
          /\ calls[i].op = "task_delete"
          /\ calls[i].tid # 0
          /\ calls[i].tid \notin DOMAIN ti_items
          /\ calls[i].uuid \notin DOMAIN tw_store
          /\ calls[i].uuid \notin prev_run[Len(prev_run)].uuids

-----------------------------------------------------------------------------
(* Properties of `sync` (Spec): creation under an unknown project.        *)

\* This step calls _ti_add_task for a local task whose project, after the
\* default-project assignment, is no name of the project index.
AddsUnderUnknownProject ==
    /\ pc = "pass1" /\ t_idx <= Len(tw_tasks)
    /\ LET tw_task == with_default_project(tw_tasks[t_idx]) IN
       /\ ~pass1_skips(tw_task)
       /\ tw_task.todoist_id = 0
       /\ ~DictHas(ti_project_list, tw_task.project)

\* C20: _ti_add_task on a local task whose project is not in the remote
\* project index creates no remote task, commits nothing, leaves the local
\* store as it is (no remote identifier, no last-synced stamp, no default
\* project written), reports the project and lets the pass go on with the
\* next task.
UnknownProjectLeavesAllAlone ==
    [][AddsUnderUnknownProject =>
          /\ ti_items' = ti_items /\ ti_queue' = ti_queue /\ next_id' = next_id
          /\ tw_store' = tw_store
          /\ calls' = Append(calls, E("project_not_found", tw_tasks[t_idx].uuid, 0))
          /\ pc' = "pass1" /\ t_idx' = t_idx + 1]_vars

\* A pass met a local task of a project the remote side does not have, went
\* on, and the run ended with the task as it was: unlinked and unstamped.
UnknownProjectSeen ==
    /\ pc = "idle" /\ Len(prev_run) >= 1 /\ cmd.exit = 0
    /\ \E i \in 1..Len(calls) :
          /\ calls[i].op = "project_not_found"
          /\ calls[i].uuid \in DOMAIN tw_store
          /\ tw_store[calls[i].uuid].project = N_ghost
          /\ tw_store[calls[i].uuid].todoist_id = 0
          /\ tw_store[calls[i].uuid].todoist_sync = 0
          /\ \E j \in (i + 1)..Len(calls) : calls[j].op = "commit"

-----------------------------------------------------------------------------
(* Properties of the pull (SpecPull).                                     *)

\* A field that is absent, None or empty holds nothing.
Held(v) == IF v \in {"None", ""} THEN "None" ELSE v
HeldTags(v) == IF v \in {NoneStr, <<>>} THEN <<>> ELSE v

\* One of the fields the pull compares differs from the converted remote
\* value.
Differs(tw_task, ti_task) ==
    \/ tw_task.description # ti_task.description
    \/ tw_task.project # ti_task.project
    \/ HeldTags(tw_task.tags) # HeldTags(ti_task.tags)
    \/ \E f \in {"priority", "entry", "due", "recur"} :
          Held(tw_task[f]) # Held(ti_task[f])
    \/ tw_task.status # ti_task.status

\* The step wrote local task 1: one task_update, the stamp refreshed.
PullWrote ==
    /\ calls'[Len(calls')] = E("task_update", 1, 1)
    /\ Len(calls') = Len(calls) + 2
    /\ tw_store'[1].todoist_sync = now
    /\ ~Differs(tw_store'[1], fn_arg.c_ti_task)

\* C21: _tw_update_task writes the local task and refreshes its last-synced
\* stamp if and only if one of description, project, tags, priority, entry,
\* due, recurrence, status differs from the converted remote value; when
\* none differs it issues no update and leaves the stamp; and a pull that
\* follows a pull of the same converted remote task issues no update.
PullChangeGated ==
    [][fn_ret' # fn_ret =>
          /\ IF Differs(with_default_project(tw_store[1]), fn_arg.c_ti_task)
             THEN PullWrote
             ELSE tw_store' = tw_store /\ calls' = calls
          /\ fn_ret # <<>> => (tw_store' = tw_store /\ calls' = calls)]_vars

\* A pull has written the local task, which differed in its tags and its
\* recurrence among others, and the pull after it has written nothing.
PulledTwice ==
    /\ Len(fn_ret) = 2
    /\ fn_ret[1].int_ret = 1 /\ fn_ret[2].int_ret = 0
    /\ tw_store[1].todoist_sync = 10
    /\ tw_store[1].tags = << "work" >> /\ tw_store[1].recur = "daily"
    /\ Len(calls) = 2

-----------------------------------------------------------------------------
(* Properties of the day-of-week family (SpecRecur).                      *)

\* The count a count word stands for: its digits, without the ordinal ending.
CountOf(word) ==
    CHOOSE c \in Digits : \E ord \in _ORDINAL : word = c \o ord

\* The cycle count of a day-of-week phrase, from its words: the count word
\* between `every` and the weekday, 2 for `other`, 1 when there is none.
CycleCount(words) ==
    IF words[2] \in _DOW THEN "1"
    ELSE IF words[2] = "other" THEN "2"
    ELSE CountOf(words[2])

\* C22: for every weekday name and every explicit or implicit cycle count,
\* _recur_day_of_week yields "weekly" when the count is 1 (no count given, or
\* an explicit 1 as in "every 1 monday" and "every 1st monday") and
\* "<N> weeks" otherwise, "other" standing for N = 2.
DayOfWeekCountRule ==
    \A i \in 1..Len(fn_ret) :
        LET words == [k \in 1..Len(split(fn_ret[i].str_arg)) |->
                         lower(split(fn_ret[i].str_arg)[k])]
            normal == normalise(fn_ret[i].str_arg)
        IN  (/\ fn_ret[i].fn = "parse_recur_string"
             /\ re_match(RE_EVERY_DOW, normal) # {}) =>
                /\ fn_ret[i].str_ret = _recur_day_of_week(normal)
                /\ fn_ret[i].str_ret =
                      IF CycleCount(words) = "1" THEN "weekly"
                      ELSE CycleCount(words) \o " weeks"

-----------------------------------------------------------------------------
(* Properties of the links between the stores (Spec).                     *)

\* No run so far has failed: none was aborted, none logged a task's failure.
FailureFree ==
    /\ \A i \in 1..Len(prev_run) : prev_run[i].ok
    /\ AllOps \cap {"error", "uncaught"} = {}

\* No two local tasks carry the same remote identifier.
LinksUnique ==
    \A u, v \in DOMAIN tw_store :
        (u # v /\ tw_store[u].todoist_id # 0) =>
            tw_store[u].todoist_id # tw_store[v].todoist_id

\* No remote task created from a local task in this run was imported in it.
NoReimport ==
    \A i, j \in 1..Len(calls) :
        calls[i].op = "item_add" => ~(calls[j].op = "task_add" /\ calls[j].tid = calls[i].tid)

\* The step creates a local task from the remote task `tid`.
Imports(tid) ==
    /\ pc = "pass2"
    /\ Len(calls') = Len(calls) + 1
    /\ calls'[Len(calls')].op = "task_add"
    /\ calls'[Len(calls')].tid = tid

\* C23: through failure-free `sync` runs from a local store in which no two
\* tasks share a remote identifier, no two local tasks carry the same remote
\* identifier, and the Remote -> Local pass creates a local task from a
\* remote task only when no local task carries that task's identifier, a
\* remote task created from a local task earlier in the run included.
LinkUniqueness ==
    /\ [](FailureFree => (LinksUnique /\ NoReimport))
    /\ [][\A tid \in DOMAIN ti_items :
             Imports(tid) => /\ get_task(tw_store, tid) = {}
                             /\ get_task(tw_store', tid) = {next_uuid}]_vars

\* A clean run has created a remote task from a local one and a local task
\* from a remote one, and the two local tasks carry different identifiers.
LinkedBothWays ==
    /\ pc = "idle" /\ Len(prev_run) = 1 /\ FailureFree
    /\ {"item_add", "task_add"} \subseteq AllOps
    /\ \E u, v \in DOMAIN tw_store :
          /\ u # v
          /\ tw_store[u].todoist_id # 0 /\ tw_store[v].todoist_id # 0
          /\ tw_store[u].todoist_id # tw_store[v].todoist_id

====
